---- MODULE Spec2Model ----
(***************************************************************************)
(* The multiplexed connection of zeronet_protocol (async_connection.rs):   *)
(* the shared state (inbox `values`, pending map `requests`, receiver      *)
(* `wakers`, `closed`), the three futures (send, receive, response), the   *)
(* background read worker spawned by recv(), the write worker spawned by   *)
(* SendFuture::poll, wake_one and close_connection.  A step is one lock    *)
(* acquisition and what follows it up to the next one: a thread that holds *)
(* one mutex and needs another waits in between.  A future is driven by    *)
(* its own task, which polls it once when created and again after each     *)
(* wake.                                                                   *)
(***************************************************************************)
EXTENDS Integers, Sequences, FiniteSets, TLC

\* ------------------------------------------------------------------ bounds
NFut == 2
MaxWire == 2
MaxId == 1
MaxWorkers == 3
NClones == 2
MaxAlloc == 4
\* the longest byte string handed to unpack
MaxBytes == 38

Fut == 1..NFut
Ids == 0..MaxId
Wk == 1..MaxWorkers
Clones == 1..NClones

\* Option::None for a request id / a waker / a slot owner
NoId == -1
NoWaker == 0
\* on the stream: bytes that do not decode to a message
Garbage == -2

\* ------------------------------------------------------------ result values
\* Option<Result<T, Error>>: kind "none" is None, "ok" carries a message
\* (its `to` field and its position on the wire), the others are errors.
NoRes == [kind |-> "none", to |-> NoId, seq |-> 0]
OkRes(m) == [kind |-> "ok", to |-> m.to, seq |-> m.seq]
ErrRes(e) == [kind |-> e, to |-> NoId, seq |-> 0]
ConnectionClosed == ErrRes("ConnectionClosed")
MissingReqId == ErrRes("MissingReqId")
WriteError == ErrRes("Io")
EncodeError == ErrRes("Encode")
\* Ok(()) of a send
OkUnit == [kind |-> "ok", to |-> NoId, seq |-> 0]

NoEntry == [slot |-> NoWaker, waker |-> NoWaker]
\* ZeroConnection::connect not called yet
NoConnect == [pc |-> "start", variant |-> "none", out |-> "none"]
\* no read worker: `response` is what from_read returned to the worker
\* ("ok", "io": the read failed, "decode": the bytes are no message), `todo`
\* the pending entries its close_connection has still to visit, `entry` the
\* entry it has taken out of the pending map for its response
NoWorker == [st |-> "none", waker |-> NoWaker, response |-> "none", todo |-> {},
             entry |-> NoEntry]
\* every mutex free (0: no holder)
NoLocks == [state |-> 0, values |-> 0, slot |-> [f \in 1..NFut |-> 0],
            send |-> [f \in 1..NFut |-> 0]]

VARIABLES
  kind,       \* kind[f]: "unused", "recv" (ReceiveFuture), "req" (request) or "send"
  req_id,     \* req_id[f]: the req_id of the message of request f, or NoId
  pc,         \* position of future f
  notified,   \* notified[f]: the task of f has been woken and will poll f
  result,     \* result[f]: what the future resolved to
  slot,       \* slot[f]: ResponseFuture.value of request f
  values,     \* SharedState.values (the inbox), a Vec
  requests,   \* SharedState.requests: id -> (slot owner, Option<Waker>)
  wakers,     \* SharedState.wakers, a Vec of wakers (task ids)
  closed,     \* SharedState.closed
  poisoned,   \* the mutexes poisoned by a panic while they were held
  reader,     \* the worker holding the reader mutex, or 0
  workers,    \* the read workers spawned by recv()
  sent,       \* the `to` field of every message the peer has written, in order
  nread,      \* number of those messages the read workers have decoded
  broken,     \* the stream has failed: a read past the last message is Err
  written,    \* req_ids of the messages written to the writer, in order
  atClose,    \* history: the receive futures that were suspended when a read failed
  afterClose, \* history: the futures created while closed was already true
  writer,     \* the future whose send worker holds the writer mutex, or 0
  out,        \* the fragments written to the writer, in order
  spare,      \* spare[f]: write workers of send f spawned by further polls, not yet run
  locks,      \* who holds the state mutex, the inbox mutex, each slot and send-state mutex
  early,      \* history: the requests answered before their response future was polled
  held,       \* held[f]: the value the poll of f has popped or taken and not yet returned
  repolls,    \* history: the number of polls made without a wake so far
  next_req_id, \* the counter cells behind ZeroConnection.next_req_id
  cpoisoned,  \* the counter cells whose mutex is poisoned
  cpc,        \* cpc[c]: position of clone c inside ZeroConnection::request
  cid,        \* cid[c]: the id req_id() returned to clone c
  allocs,     \* history: the ids returned by req_id(), in order
  created,    \* history: the req_ids of the request messages created, in order
  conn,       \* the ZeroConnection::connect call: position, address variant, outcome
  lenient,    \* base32::decode drops surplus trailing bits (TRUE) or rejects them
  input,      \* the string handed to PeerAddr::parse
  parsed,     \* what PeerAddr::parse(input) returned
  value,      \* the PeerAddr under study: the one parse returned, or one constructed
  packed,     \* what value.pack() returned, or the bytes handed to unpack
  unpacked,   \* what PeerAddr::unpack(packed) returned
  shown,      \* what value.to_string() returned
  reparsed    \* what PeerAddr::parse(shown) returned

sendVars == <<writer, out, spare, locks, early, held, repolls>>
facadeVars == <<next_req_id, cpoisoned, cpc, cid, allocs, created, conn>>
addrVars == <<lenient, input, parsed, value, packed, unpacked, shown, reparsed>>

vars == <<kind, req_id, pc, notified, result, slot, values, requests, wakers,
          closed, poisoned, reader, workers, sent, nread, broken, written,
          atClose, afterClose, sendVars, facadeVars, addrVars>>

\* no result yet
None == [kind |-> "none"]

ConnInit ==
  /\ kind = [f \in Fut |-> "unused"]
  /\ req_id = [f \in Fut |-> NoId]
  /\ pc = [f \in Fut |-> "unused"]
  /\ notified = [f \in Fut |-> FALSE]
  /\ result = [f \in Fut |-> NoRes]
  /\ slot = [f \in Fut |-> NoRes]
  /\ values = <<>>
  /\ requests = [k \in Ids |-> NoEntry]
  /\ wakers = <<>>
  /\ closed = FALSE
  /\ poisoned = {}
  /\ reader = 0
  /\ workers = [w \in Wk |-> NoWorker]
  /\ sent = <<>>
  /\ nread = 0
  /\ broken = FALSE
  /\ written = <<>>
  /\ atClose = {}
  /\ afterClose = {}
  /\ writer = 0
  /\ out = <<>>
  /\ spare = [f \in Fut |-> 0]
  /\ locks = NoLocks
  /\ early = {}
  /\ held = [f \in Fut |-> NoRes]
  /\ repolls = 0
  /\ next_req_id = [c \in Clones |-> 0]
  /\ cpoisoned = {}
  /\ cpc = [c \in Clones |-> "idle"]
  /\ cid = [c \in Clones |-> NoId]
  /\ allocs = <<>>
  /\ created = <<>>
  /\ conn = NoConnect

\* the state after construction; no address operation has run
Init ==
  /\ ConnInit
  /\ lenient = FALSE
  /\ input = None
  /\ parsed = None
  /\ value = None
  /\ packed = None
  /\ unpacked = None
  /\ shown = None
  /\ reparsed = None

\* ----------------------------------------------------------------- helpers
\* the message at position i of the stream, and the bytes not yet decoded
Msg(i) == [to |-> sent[i], seq |-> i]
wire == [i \in 1..(Len(sent) - nread) |-> Msg(nread + i)]

Front(s) == SubSeq(s, 1, Len(s) - 1)
Last(s) == s[Len(s)]

Live(f) == f \in Fut /\ pc[f] \notin {"unused", "done", "panicked", "dropped"}

\* request f (or send f) is inside send_future.await: the send future has
\* not returned Ready yet
Sending(f) ==
  pc[f] \in {"sending", "s_spawned", "s_state", "s_locked", "s_half",
             "s_ok", "s_io", "s_enc"}

\* Waker::wake(): the task of f polls f again; no effect on a finished task
Wake(nt, f) == IF Live(f) THEN [nt EXCEPT ![f] = TRUE] ELSE nt

RECURSIVE WakeAll(_, _)
WakeAll(nt, fs) ==
  IF fs = {} THEN nt
  ELSE LET f == CHOOSE x \in fs : TRUE IN WakeAll(Wake(nt, f), fs \ {f})

Pending(rq) == {k \in Ids : rq[k].slot # NoWaker}

\* wake_one: pop the most recently pushed receiver waker and wake it; with no
\* receiver waker, look at the first entry the HashMap iterator yields (any
\* entry: the order is that of a randomly seeded hash) and wake its waker if
\* it has one.  The set of possible outcomes.
wake_one(wk, rq, nt) ==
  IF wk # <<>>
  THEN {[wakers |-> Front(wk), notified |-> Wake(nt, Last(wk))]}
  ELSE IF Pending(rq) = {}
  THEN {[wakers |-> wk, notified |-> nt]}
  ELSE {[wakers |-> wk,
         notified |-> IF rq[k].waker # NoWaker THEN Wake(nt, rq[k].waker)
                      ELSE nt] : k \in Pending(rq)}

\* values.pop() in ReceiveFuture::poll: what is left in the inbox
values_peek(vals) == vals
values_pop(vals) == Front(vals)

\* requests.remove(&to): the slot registered under the id `to`
SlotOfFirst(rq, to) ==
  rq[CHOOSE k \in Pending(rq) : \A j \in Pending(rq) : k <= j].slot
SlotOf(rq, to) == rq[to].slot

FreeWorkers == {w \in Wk : workers[w].st = "none"}
NextFut == CHOOSE f \in Fut : pc[f] = "unused" /\ \A g \in Fut : pc[g] = "unused" => f <= g

\* rmp_serde::from_read returns Err: the stream has failed and nothing is left
\* to read, or the next bytes are not a message
ReadFails == wire = <<>> \/ Head(wire).to = Garbage

\* shared_state.lock() at the head of a critical section: it goes on when
\* the state mutex is free
state_lock == locks.state = 0

\* the name under which read worker w holds a mutex (tasks hold it under the
\* number of their future)
WorkerId(w) == NFut + w

\* recv(shared_state, waker), the part run by the polling task: give up when
\* the reader mutex cannot be taken right now, else spawn a read worker.  The
\* code spawns without limit; with NFut futures and MaxRepoll spurious polls
\* at most MaxWorkers workers exist at a time, so a free one is always found.
recv(f) ==
  IF reader # 0 \/ "reader" \in poisoned
  THEN UNCHANGED workers
  ELSE /\ FreeWorkers # {}
       /\ LET w == CHOOSE x \in FreeWorkers : \A y \in FreeWorkers : x <= y
          IN workers' = [workers EXCEPT ![w] = [NoWorker EXCEPT !.st = "spawned",
                                                                !.waker = f]]

\* ----------------------------------------------------------- the futures
\* Connection::recv(): lock the state, create a ReceiveFuture; its task
\* polls it.
StartRecv(f) ==
  /\ pc[f] = "unused" /\ f = NextFut
  /\ state_lock
  /\ kind' = [kind EXCEPT ![f] = "recv"]
  /\ IF "state" \in poisoned
     THEN pc' = [pc EXCEPT ![f] = "panicked"] /\ UNCHANGED notified
     ELSE pc' = [pc EXCEPT ![f] = "wait"] /\ notified' = [notified EXCEPT ![f] = TRUE]
  /\ afterClose' = IF closed THEN afterClose \cup {f} ELSE afterClose
  /\ UNCHANGED <<req_id, result, slot, values, requests, wakers, closed,
                 poisoned, reader, workers, sent, nread, broken, written,
                 atClose, sendVars, facadeVars, addrVars>>

\* Connection::request(message), lines 303-316: lock the state, register the
\* slot under the message's req_id (with no waker), drop the guard, build the
\* ResponseFuture.  The effect on the connection.
request(f, k) ==
  /\ pc[f] = "unused" /\ f = NextFut
  /\ state_lock
  /\ kind' = [kind EXCEPT ![f] = "req"]
  /\ req_id' = [req_id EXCEPT ![f] = k]
  /\ IF "state" \in poisoned
     THEN pc' = [pc EXCEPT ![f] = "panicked"] /\ UNCHANGED requests
     ELSE /\ pc' = [pc EXCEPT ![f] = "registered"]
          /\ requests' = IF k # NoId
                         THEN [requests EXCEPT ![k] = [slot |-> f, waker |-> NoWaker]]
                         ELSE requests
  /\ afterClose' = IF closed THEN afterClose \cup {f} ELSE afterClose
  /\ UNCHANGED <<notified, result, slot, values, wakers, closed, poisoned,
                 reader, workers, sent, nread, broken, written, atClose,
                 sendVars, addrVars>>

\* Connection::request(message) called on the connection itself.
StartRequest(f, k) == request(f, k) /\ UNCHANGED facadeVars

\* Connection::request(message), line 318: self.send(message, None) locks the
\* state a second time to clone the writer and builds the SendFuture; the
\* async block is returned and its task polls it.  On a poisoned mutex the
\* call panics with its entry already in the pending map.
RequestSend(f) ==
  /\ pc[f] = "registered"
  /\ state_lock
  /\ pc' = [pc EXCEPT ![f] = IF "state" \in poisoned THEN "panicked" ELSE "sending"]
  /\ UNCHANGED <<kind, req_id, notified, result, slot, values, requests, wakers,
                 closed, poisoned, reader, workers, sent, nread, broken,
                 written, atClose, afterClose, sendVars, facadeVars, addrVars>>

\* Connection::send(message, buf): lock the state to clone the writer, build
\* the SendFuture; its task polls it.
StartSend(f) ==
  /\ pc[f] = "unused" /\ f = NextFut
  /\ state_lock
  /\ kind' = [kind EXCEPT ![f] = "send"]
  /\ IF "state" \in poisoned
     THEN pc' = [pc EXCEPT ![f] = "panicked"]
     ELSE pc' = [pc EXCEPT ![f] = "sending"]
  /\ afterClose' = IF closed THEN afterClose \cup {f} ELSE afterClose
  /\ UNCHANGED <<req_id, notified, result, slot, values, requests, wakers,
                 closed, poisoned, reader, workers, sent, nread, broken,
                 written, atClose, sendVars, facadeVars, addrVars>>

\* ------------------------------------------------------- the send future
\* a writer that is not locked at all
writer_nolock(wr) == TRUE
\* writer.lock() in the write worker: it goes on when no worker holds the
\* writer mutex
writer_lock(wr) == wr = 0

\* a request() that polls its response future without awaiting the send
SendPollNoAwait(f) ==
  /\ pc[f] = "sending"
  /\ pc' = [pc EXCEPT ![f] = IF kind[f] = "req" THEN "wait" ELSE "s_spawned"]
  /\ notified' = [notified EXCEPT ![f] = kind[f] = "req"]
  /\ UNCHANGED <<kind, req_id, result, slot, values, requests,
                 wakers, closed, poisoned, reader, workers, sent, nread, broken,
                 written, atClose, afterClose, sendVars, facadeVars, addrVars>>

\* SendFuture::poll with no result yet (the first poll): spawn the write
\* worker, return Pending.
SendPoll(f) ==
  /\ pc[f] = "sending"
  /\ pc' = [pc EXCEPT ![f] = "s_spawned"]
  /\ UNCHANGED <<kind, req_id, notified, result, slot, values, requests,
                 wakers, closed, poisoned, reader, workers, sent, nread, broken,
                 written, atClose, afterClose, sendVars, facadeVars, addrVars>>

\* The write worker, line 52: moved_state.lock(), the first worker to lock
\* the send state.  It keeps the guard to the end of its closure.
SendWorkerState(f) ==
  /\ pc[f] = "s_spawned"
  /\ locks.send[f] = 0
  /\ locks' = [locks EXCEPT !.send[f] = 1]
  /\ pc' = [pc EXCEPT ![f] = "s_state"]
  /\ UNCHANGED <<kind, req_id, notified, result, slot, values, requests,
                 wakers, closed, poisoned, reader, workers, sent, nread, broken,
                 written, atClose, afterClose, writer, out, spare, early, held, repolls,
                 facadeVars, addrVars>>

\* The write worker, line 54: writer.lock(), with the send state held.
SendWorkerLock(f) ==
  /\ pc[f] = "s_state"
  /\ writer_lock(writer)
  /\ writer' = f
  /\ pc' = [pc EXCEPT ![f] = "s_locked"]
  /\ UNCHANGED <<kind, req_id, notified, result, slot, values, requests,
                 wakers, closed, poisoned, reader, workers, sent, nread, broken,
                 written, atClose, afterClose, out, spare, locks, early, held, repolls,
                 facadeVars, addrVars>>

\* The write worker, lines 56-74: encode the message (o = "Encode": the
\* encoding fails and nothing is written) and write it with write_named,
\* which writes the bytes in several calls (two fragments here; o = "Io":
\* the next write fails).  Then store the result, wake the task and drop the
\* writer and send-state guards.
SendWorkerWrite(f, o) ==
  /\ pc[f] \in {"s_locked", "s_half"}
  /\ o = "Encode" => pc[f] = "s_locked"
  /\ IF o = "ok" /\ pc[f] = "s_locked"
     THEN /\ out' = Append(out, [f |-> f, part |-> 1])
          /\ pc' = [pc EXCEPT ![f] = "s_half"]
          /\ UNCHANGED <<writer, written, notified, locks>>
     ELSE /\ out' = IF o = "ok" THEN Append(out, [f |-> f, part |-> 2]) ELSE out
          /\ written' = IF o = "ok" THEN Append(written, req_id[f]) ELSE written
          /\ pc' = [pc EXCEPT ![f] = IF o = "ok" THEN "s_ok"
                                     ELSE IF o = "Io" THEN "s_io" ELSE "s_enc"]
          /\ writer' = IF writer = f THEN 0 ELSE writer
          /\ locks' = [locks EXCEPT !.send[f] = 0]
          /\ notified' = [notified EXCEPT ![f] = TRUE]
  /\ UNCHANGED <<kind, req_id, result, slot, values, requests, wakers, closed,
                 poisoned, reader, workers, sent, nread, broken, atClose,
                 afterClose, spare, early, held, repolls, facadeVars, addrVars>>

\* SendFuture::poll with a result: lock the send state, Ready(result).
\* Inside request() an Ok lets the same poll go on to the ResponseFuture, an
\* Err is the request's result.
SendReady(f) ==
  /\ pc[f] \in {"s_ok", "s_io", "s_enc"}
  /\ locks.send[f] = 0
  /\ IF pc[f] = "s_ok" /\ kind[f] = "req"
     THEN /\ pc' = [pc EXCEPT ![f] = "wait"]
          /\ notified' = [notified EXCEPT ![f] = TRUE]
          /\ UNCHANGED result
     ELSE /\ pc' = [pc EXCEPT ![f] = "done"]
          /\ notified' = [notified EXCEPT ![f] = FALSE]
          /\ result' = [result EXCEPT ![f] =
                          IF pc[f] = "s_ok" THEN OkUnit
                          ELSE IF pc[f] = "s_io" THEN WriteError ELSE EncodeError]
  /\ UNCHANGED <<kind, req_id, slot, values, requests, wakers, closed,
                 poisoned, reader, workers, sent, nread, broken, written,
                 atClose, afterClose, sendVars, facadeVars, addrVars>>

\* ---------------------------------------------------- the receive future
\* ReceiveFuture::poll, lines 98-99: lock the inbox and pop.  On None the
\* guard is dropped at the end of the block; on Some the poll keeps it while
\* it goes on to lock the state.
RecvLock(f) ==
  /\ kind[f] = "recv" /\ pc[f] = "wait" /\ notified[f]
  /\ locks.values = 0
  /\ notified' = [notified EXCEPT ![f] = FALSE]
  /\ IF "values" \in poisoned
     THEN /\ pc' = [pc EXCEPT ![f] = "panicked"]
          /\ UNCHANGED <<held, values, locks>>
     ELSE IF values = <<>>
     THEN /\ pc' = [pc EXCEPT ![f] = "r2"]
          /\ UNCHANGED <<held, values, locks>>
     ELSE /\ pc' = [pc EXCEPT ![f] = "r1"]
          /\ values' = values_pop(values)
          /\ held' = [held EXCEPT ![f] = Last(values)]
          /\ locks' = [locks EXCEPT !.values = f]
  /\ UNCHANGED <<kind, req_id, result, slot, requests, wakers, closed, poisoned,
                 reader, workers, sent, nread, broken, written, atClose,
                 afterClose, writer, out, spare, early, repolls, facadeVars,
                 addrVars>>

\* ReceiveFuture::poll, lines 100-101: lock the state, wake_one, return
\* Ready(value); both guards are dropped.  A panic on the poisoned state
\* mutex poisons the inbox mutex, whose guard is held.
RecvWake(f) ==
  /\ pc[f] = "r1"
  /\ state_lock
  /\ locks' = [locks EXCEPT !.values = 0]
  /\ held' = [held EXCEPT ![f] = NoRes]
  /\ IF "state" \in poisoned
     THEN /\ pc' = [pc EXCEPT ![f] = "panicked"]
          /\ poisoned' = poisoned \cup {"values"}
          /\ UNCHANGED <<wakers, notified, result>>
     ELSE \E o \in wake_one(wakers, requests, notified) :
          /\ pc' = [pc EXCEPT ![f] = "done"]
          /\ result' = [result EXCEPT ![f] = held[f]]
          /\ wakers' = o.wakers
          /\ notified' = [o.notified EXCEPT ![f] = FALSE]
          /\ UNCHANGED poisoned
  /\ UNCHANGED <<kind, req_id, slot, values, requests, closed, reader, workers,
                 sent, nread, broken, written, atClose, afterClose, writer, out,
                 spare, early, repolls, facadeVars, addrVars>>

\* ReceiveFuture::poll, lines 105-109: lock the state, push the task's waker.
RecvPoll2(f) ==
  /\ pc[f] = "r2"
  /\ state_lock
  /\ IF "state" \in poisoned
     THEN pc' = [pc EXCEPT ![f] = "panicked"] /\ UNCHANGED wakers
     ELSE pc' = [pc EXCEPT ![f] = "r3"] /\ wakers' = Append(wakers, f)
  /\ UNCHANGED <<kind, req_id, notified, result, slot, values, requests,
                 closed, poisoned, reader, workers, sent, nread, broken, written,
                 atClose, afterClose, sendVars, facadeVars, addrVars>>

\* ReceiveFuture::poll / ResponseFuture::poll, last statement: recv() locks
\* the state, tries the reader and spawns a worker; then return Pending.
PollRecv(f) ==
  /\ pc[f] \in {"r3", "q3"}
  /\ state_lock
  /\ IF "state" \in poisoned
     THEN pc' = [pc EXCEPT ![f] = "panicked"] /\ UNCHANGED workers
     ELSE pc' = [pc EXCEPT ![f] = "wait"] /\ recv(f)
  /\ UNCHANGED <<kind, req_id, notified, result, slot, values, requests,
                 wakers, closed, poisoned, reader, sent, nread, broken, written,
                 atClose, afterClose, sendVars, facadeVars, addrVars>>

\* --------------------------------------------------- the response future
\* ResponseFuture::poll, lines 134-135: lock the slot and take.  On None the
\* guard is dropped at the end of the block; on Some the poll keeps it while
\* it goes on to lock the state.
RespLock(f) ==
  /\ kind[f] = "req" /\ pc[f] = "wait" /\ notified[f]
  /\ locks.slot[f] = 0
  /\ notified' = [notified EXCEPT ![f] = FALSE]
  /\ IF slot[f].kind = "none"
     THEN /\ pc' = [pc EXCEPT ![f] = "q2"]
          /\ UNCHANGED <<held, slot, locks>>
     ELSE /\ pc' = [pc EXCEPT ![f] = "q1"]
          /\ slot' = [slot EXCEPT ![f] = NoRes]
          /\ held' = [held EXCEPT ![f] = slot[f]]
          /\ locks' = [locks EXCEPT !.slot[f] = f]
  /\ UNCHANGED <<kind, req_id, result, values, requests, wakers, closed,
                 poisoned, reader, workers, sent, nread, broken, written,
                 atClose, afterClose, writer, out, spare, early, repolls,
                 facadeVars, addrVars>>

\* ResponseFuture::poll, lines 137-138: lock the state, wake_one, return
\* Ready(value); both guards are dropped.
RespWake(f) ==
  /\ pc[f] = "q1"
  /\ state_lock
  /\ locks' = [locks EXCEPT !.slot[f] = 0]
  /\ held' = [held EXCEPT ![f] = NoRes]
  /\ IF "state" \in poisoned
     THEN /\ pc' = [pc EXCEPT ![f] = "panicked"]
          /\ UNCHANGED <<wakers, notified, result>>
     ELSE \E o \in wake_one(wakers, requests, notified) :
          /\ pc' = [pc EXCEPT ![f] = "done"]
          /\ result' = [result EXCEPT ![f] = held[f]]
          /\ wakers' = o.wakers
          /\ notified' = [o.notified EXCEPT ![f] = FALSE]
  /\ UNCHANGED <<kind, req_id, slot, values, requests, closed, poisoned, reader,
                 workers, sent, nread, broken, written, atClose, afterClose,
                 writer, out, spare, early, repolls, facadeVars, addrVars>>

\* ResponseFuture::poll, lines 142-152: lock the state, (re-)insert the slot
\* with the task's waker under req_id, or return Ready(Err(MissingReqId)).
RespPoll2(f) ==
  /\ pc[f] = "q2"
  /\ state_lock
  /\ IF "state" \in poisoned
     THEN pc' = [pc EXCEPT ![f] = "panicked"] /\ UNCHANGED <<requests, result>>
     ELSE IF req_id[f] # NoId
     THEN /\ requests' = [requests EXCEPT ![req_id[f]] = [slot |-> f, waker |-> f]]
          /\ pc' = [pc EXCEPT ![f] = "q3"]
          /\ UNCHANGED result
     ELSE /\ pc' = [pc EXCEPT ![f] = "done"]
          /\ result' = [result EXCEPT ![f] = MissingReqId]
          /\ UNCHANGED requests
  /\ UNCHANGED <<kind, req_id, notified, slot, values, wakers, closed,
                 poisoned, reader, workers, sent, nread, broken, written,
                 atClose, afterClose, sendVars, facadeVars, addrVars>>

\* ------------------------------------------------------- the read worker
\* a reader that is not locked at all
reader_nolock(rd) == TRUE
\* reader.lock() in the read worker: it goes on when no worker holds the
\* reader mutex
reader_lock(rd) == rd = 0

\* a read worker that takes the state mutex together with the reader mutex,
\* before it reads
WorkerLockMonitor(w) ==
  /\ workers[w].st = "spawned" /\ reader_lock(reader) /\ locks.state = 0
  /\ workers' = [workers EXCEPT ![w].st = "reading"]
  /\ reader' = w
  /\ locks' = [locks EXCEPT !.state = WorkerId(w)]
  /\ UNCHANGED <<kind, req_id, pc, notified, result, slot, values, requests,
                 wakers, closed, poisoned, sent, nread, broken, written, atClose,
                 afterClose, writer, out, spare, early, held, repolls, facadeVars, addrVars>>

\* The read worker, line 176: reader.lock().unwrap().
WorkerLock(w) ==
  /\ workers[w].st = "spawned" /\ reader_lock(reader)
  /\ IF "reader" \in poisoned
     THEN workers' = [workers EXCEPT ![w] = NoWorker] /\ UNCHANGED reader
     ELSE workers' = [workers EXCEPT ![w].st = "reading"] /\ reader' = w
  /\ UNCHANGED <<kind, req_id, pc, notified, result, slot, values, requests,
                 wakers, closed, poisoned, sent, nread, broken, written, atClose,
                 afterClose, sendVars, facadeVars, addrVars>>

\* The read worker, line 177: rmp_serde::from_read returns, with the reader
\* mutex held and no other: a message (Msg(nread) after the step), or an
\* error when the next bytes are no message or the stream has failed.
WorkerDecode(w) ==
  /\ workers[w].st = "reading"
  /\ wire # <<>> \/ broken
  /\ workers' = [workers EXCEPT
                   ![w].st = IF ReadFails THEN "failed" ELSE "decoded",
                   ![w].response = IF wire = <<>> THEN "io"
                                   ELSE IF Head(wire).to = Garbage THEN "decode"
                                   ELSE "ok"]
  /\ nread' = IF wire # <<>> THEN nread + 1 ELSE nread
  /\ UNCHANGED <<kind, req_id, pc, notified, result, slot, values, requests,
                 wakers, closed, poisoned, reader, sent, broken, written,
                 atClose, afterClose, sendVars, facadeVars, addrVars>>

\* requests.remove(&to), line 190: the entry of id `to`, taken out of the
\* pending map
remove(rq, to) == [slot |-> SlotOf(rq, to), waker |-> rq[to].waker]

\* the message read worker w has decoded is a response
HasResponse(w) == workers[w].st = "decoded" /\ Msg(nread).to # NoId

\* The read worker, line 178: moved_state.lock().unwrap(), and what it does
\* with the state guard before it waits for the next mutex.  A panic on a
\* poisoned mutex poisons the reader mutex, whose guard is held.  After a
\* failed read close_connection starts at once: closed = true (line 224),
\* then the entries of the pending map are visited.  With a response the
\* worker takes the entry of its id out of the pending map (line 190) and
\* goes on to lock the entry's slot; requests.remove(&to).unwrap() panics
\* when there is no entry, and the worker then dies holding the state and
\* reader mutexes, which poisons both.
WorkerMonitor(w) ==
  /\ workers[w].st \in {"decoded", "failed"}
  /\ state_lock
  /\ IF "state" \in poisoned
     THEN /\ poisoned' = poisoned \cup {"reader"}
          /\ reader' = 0
          /\ workers' = [workers EXCEPT ![w] = NoWorker]
          /\ UNCHANGED <<locks, closed, requests>>
     ELSE IF HasResponse(w) /\ requests[Msg(nread).to] = NoEntry
     THEN /\ poisoned' = poisoned \cup {"state", "reader"}
          /\ reader' = 0
          /\ workers' = [workers EXCEPT ![w] = NoWorker]
          /\ UNCHANGED <<locks, closed, requests>>
     ELSE /\ workers' = [workers EXCEPT
                           ![w].st = IF workers[w].st = "decoded" THEN "dispatch"
                                     ELSE "closing",
                           ![w].todo = IF workers[w].st = "decoded" THEN {}
                                       ELSE Pending(requests),
                           ![w].entry = IF HasResponse(w)
                                        THEN remove(requests, Msg(nread).to)
                                        ELSE NoEntry]
          /\ requests' = IF HasResponse(w)
                         THEN [requests EXCEPT ![Msg(nread).to] = NoEntry]
                         ELSE requests
          /\ closed' = IF workers[w].st = "failed" THEN TRUE ELSE closed
          /\ locks' = [locks EXCEPT !.state = WorkerId(w)]
          /\ UNCHANGED <<poisoned, reader>>
  /\ UNCHANGED <<kind, req_id, pc, notified, result, slot, values,
                 wakers, sent, nread, broken, written, atClose, afterClose,
                 writer, out, spare, early, held, repolls, facadeVars, addrVars>>

\* DispatchResponse with the response also pushed onto the inbox
DispatchResponseAndInbox(w, m) ==
  /\ slot' = [slot EXCEPT ![workers[w].entry.slot] = OkRes(m)]
  /\ notified' = IF workers[w].entry.waker # NoWaker
                 THEN Wake(notified, workers[w].entry.waker) ELSE notified
  /\ workers' = [workers EXCEPT ![w].st = "release", ![w].entry = NoEntry]
  /\ values' = Append(values, OkRes(m))
  /\ locks' = [locks EXCEPT !.state = 0]
  /\ UNCHANGED <<wakers, requests, poisoned, reader>>

\* Dispatch of a decoded response (Some(to) arm, lines 191-195), the entry
\* taken out of the map already: lock its slot, fill it, wake its waker.
\* The arm is the last statement of the closure: the slot guard and then the
\* state guard are dropped.
DispatchResponse(w, m) ==
  /\ slot' = [slot EXCEPT ![workers[w].entry.slot] = OkRes(m)]
  /\ notified' = IF workers[w].entry.waker # NoWaker
                 THEN Wake(notified, workers[w].entry.waker) ELSE notified
  /\ workers' = [workers EXCEPT ![w].st = "release", ![w].entry = NoEntry]
  /\ locks' = [locks EXCEPT !.state = 0]
  /\ UNCHANGED <<values, wakers, requests, poisoned, reader>>

\* Dispatch of a decoded message without `to`, first block of the None arm
\* (lines 198-201): lock the inbox, push the message, drop the inbox guard.
\* The state guard stays held.
DispatchUnsolicited(w, m) ==
  /\ values' = Append(values, OkRes(m))
  /\ workers' = [workers EXCEPT ![w].st = "pushed"]
  /\ UNCHANGED <<slot, requests, poisoned, reader, wakers, notified, locks>>

\* The read worker, lines 191-201, with the state mutex held: wait for the
\* mutex the arm needs, the slot of the entry it took (value.lock(), line
\* 191) or the inbox (values.lock(), line 199), and dispatch the decoded
\* message.
WorkerDispatch(w) ==
  /\ workers[w].st = "dispatch"
  /\ IF Msg(nread).to # NoId
     THEN /\ locks.slot[workers[w].entry.slot] = 0
          /\ DispatchResponse(w, Msg(nread))
     ELSE /\ locks.values = 0
          /\ DispatchUnsolicited(w, Msg(nread))
  /\ early' = IF /\ Msg(nread).to # NoId
                   /\ workers[w].entry.waker = NoWaker
                   /\ Sending(workers[w].entry.slot)
                THEN early \cup {workers[w].entry.slot}
                ELSE early
  /\ UNCHANGED <<kind, req_id, pc, result, closed, sent, nread, broken, written,
                 atClose, afterClose, writer, out, spare, held, repolls,
                 facadeVars, addrVars>>

\* The read worker, None arm, lines 202-210, the message pushed and the
\* inbox guard dropped, the state mutex still held: pop a receiver waker and
\* wake it, or wake the task that issued the read when there is none; the
\* closure ends and the state guard is dropped.
WorkerWake(w) ==
  /\ workers[w].st = "pushed"
  /\ IF wakers # <<>>
     THEN wakers' = Front(wakers) /\ notified' = Wake(notified, Last(wakers))
     ELSE wakers' = wakers /\ notified' = Wake(notified, workers[w].waker)
  /\ workers' = [workers EXCEPT ![w].st = "release"]
  /\ locks' = [locks EXCEPT !.state = 0]
  /\ UNCHANGED <<kind, req_id, pc, result, slot, values, requests, closed,
                 poisoned, reader, sent, nread, broken, written, atClose,
                 afterClose, writer, out, spare, early, held, repolls,
                 facadeVars, addrVars>>

\* close_connection, lines 226-237, one turn of the loop over the pending
\* map (the HashMap iterator yields the entries in any order): lock the
\* slot of entry k, store Err(ConnectionClosed) if it is empty, wake the
\* entry's waker.
WorkerCloseSlot(w, k) ==
  /\ workers[w].st = "closing" /\ k \in workers[w].todo
  /\ locks.slot[requests[k].slot] = 0
  /\ slot' = [slot EXCEPT ![requests[k].slot] =
                IF slot[requests[k].slot].kind = "none" THEN ConnectionClosed
                ELSE slot[requests[k].slot]]
  /\ notified' = IF requests[k].waker # NoWaker
                 THEN Wake(notified, requests[k].waker) ELSE notified
  /\ workers' = [workers EXCEPT ![w].todo = workers[w].todo \ {k}]
  /\ UNCHANGED <<kind, req_id, pc, result, values, requests, wakers, closed,
                 poisoned, reader, sent, nread, broken, written, atClose,
                 afterClose, sendVars, facadeVars, addrVars>>

\* close_connection, lines 238-242, after the loop: lock the inbox, pop every
\* receiver waker, pushing one Err(ConnectionClosed) for each and waking it;
\* the worker returns and drops the state guard.
WorkerCloseInbox(w) ==
  /\ workers[w].st = "closing" /\ workers[w].todo = {}
  /\ locks.values = 0
  /\ values' = values \o [i \in 1..Len(wakers) |-> ConnectionClosed]
  /\ wakers' = <<>>
  /\ notified' = WakeAll(notified, {wakers[i] : i \in 1..Len(wakers)})
  /\ workers' = [workers EXCEPT ![w].st = "release"]
  /\ locks' = [locks EXCEPT !.state = 0]
  /\ atClose' = atClose \cup {f \in Fut : kind[f] = "recv" /\ pc[f] = "wait" /\ ~notified[f]}
  /\ UNCHANGED <<kind, req_id, pc, result, slot, requests, closed, poisoned,
                 reader, sent, nread, broken, written, afterClose, writer, out,
                 spare, early, held, repolls, facadeVars, addrVars>>

\* End of the worker closure: the reader guard is dropped after the state
\* guard.
WorkerRelease(w) ==
  /\ workers[w].st = "release"
  /\ reader' = 0
  /\ workers' = [workers EXCEPT ![w] = NoWorker]
  /\ UNCHANGED <<kind, req_id, pc, notified, result, slot, values, requests,
                 wakers, closed, poisoned, sent, nread, broken, written, atClose,
                 afterClose, sendVars, facadeVars, addrVars>>

\* ------------------------------------------------------------- environment
\* The peer writes a message: a request (to = NoId) or a response to id `to`.
PeerSend(to) ==
  /\ Len(sent) < MaxWire /\ ~broken
  /\ sent' = Append(sent, to)
  /\ UNCHANGED <<kind, req_id, pc, notified, result, slot, values, requests,
                 wakers, closed, poisoned, reader, workers, nread, broken,
                 written, atClose, afterClose, sendVars, facadeVars, addrVars>>

\* The peer writes bytes that do not decode to a message.
PeerGarbage ==
  /\ Len(sent) < MaxWire /\ ~broken
  /\ sent' = Append(sent, Garbage)
  /\ UNCHANGED <<kind, req_id, pc, notified, result, slot, values, requests,
                 wakers, closed, poisoned, reader, workers, nread, broken, written,
                 atClose, afterClose, sendVars, facadeVars, addrVars>>

\* The stream fails (EOF, reset): reads past the buffered messages return Err.
PeerClose ==
  /\ ~broken
  /\ broken' = TRUE
  /\ UNCHANGED <<kind, req_id, pc, notified, result, slot, values, requests,
                 wakers, closed, poisoned, reader, workers, sent, nread, written,
                 atClose, afterClose, sendVars, facadeVars, addrVars>>

\* ------------------------------------------------------- specifications
\* The steps of the library on behalf of receive futures
ReceiveStep ==
  \/ \E f \in Fut : RecvLock(f)
  \/ \E f \in Fut : RecvWake(f)
  \/ \E f \in Fut : RecvPoll2(f)

\* The steps of the library on behalf of requests and sends: tasks polling
\* their futures, write workers, read workers
RequestStep ==
  \/ \E f \in Fut : RequestSend(f)
  \/ \E f \in Fut : SendPoll(f)
  \/ \E f \in Fut : SendWorkerState(f)
  \/ \E f \in Fut : SendWorkerLock(f)
  \/ \E f \in Fut, o \in {"ok", "Io", "Encode"} : SendWorkerWrite(f, o)
  \/ \E f \in Fut : SendReady(f)
  \/ \E f \in Fut : RespLock(f)
  \/ \E f \in Fut : RespWake(f)
  \/ \E f \in Fut : RespPoll2(f)
  \/ \E f \in Fut : PollRecv(f)
  \/ \E w \in Wk : WorkerLock(w)
  \/ \E w \in Wk : WorkerDecode(w)
  \/ \E w \in Wk : WorkerMonitor(w)
  \/ \E w \in Wk : WorkerDispatch(w)
  \/ \E w \in Wk : WorkerWake(w)
  \/ \E w \in Wk, k \in Ids : WorkerCloseSlot(w, k)
  \/ \E w \in Wk : WorkerCloseInbox(w)
  \/ \E w \in Wk : WorkerRelease(w)

\* The steps of the library
Step == RequestStep \/ ReceiveStep

\* Receives and requests on one connection, the peer writing messages and
\* the stream failing at any moment
Next ==
  \/ \E f \in Fut : StartRecv(f)
  \/ \E f \in Fut, k \in Ids \cup {NoId} : StartRequest(f, k)
  \/ \E to \in Ids \cup {NoId} : PeerSend(to)
  \/ PeerClose
  \/ Step

Spec == Init /\ [][Next]_vars

\* The connection with plain sends as well
SendNext == Next \/ \E f \in Fut : StartSend(f)
SendSpec == Init /\ [][SendNext]_vars

\* The caller drops a suspended request future (a timeout, a select): the
\* future is polled no more.  ResponseFuture has no Drop: its entry stays in
\* the pending map, with the slot and the waker.
DropRequest(f) ==
  /\ kind[f] = "req" /\ pc[f] = "wait" /\ ~notified[f]
  /\ pc' = [pc EXCEPT ![f] = "dropped"]
  /\ UNCHANGED <<kind, req_id, notified, result, slot, values, requests,
                 wakers, closed, poisoned, reader, workers, sent, nread, broken,
                 written, atClose, afterClose, sendVars, facadeVars, addrVars>>

\* The caller drops a suspended receive future.  ReceiveFuture has no Drop:
\* the waker it pushed stays in `wakers`.
DropRecv(f) ==
  /\ kind[f] = "recv" /\ pc[f] = "wait" /\ ~notified[f]
  /\ pc' = [pc EXCEPT ![f] = "dropped"]
  /\ UNCHANGED <<kind, req_id, notified, result, slot, values, requests,
                 wakers, closed, poisoned, reader, workers, sent, nread, broken,
                 written, atClose, afterClose, sendVars, facadeVars, addrVars>>

\* The connection with callers that may drop suspended receive futures
DropRecvNext == Next \/ \E f \in Fut : DropRecv(f)
DropRecvSpec == Init /\ [][DropRecvNext]_vars

\* The connection with callers that may drop suspended requests
DropNext == Next \/ \E f \in Fut : DropRequest(f)
DropSpec == Init /\ [][DropNext]_vars

\* The connection with a peer that may also write undecodable bytes
DecodeNext == Next \/ PeerGarbage
DecodeSpec == Init /\ [][DecodeNext]_vars

\* ------------------------------------------------ futures polled repeatedly
\* most sends with a spare write worker alive (one each), and most polls of
\* a receive future made without a wake
MaxSpare == 1
MaxRepoll == 1

\* the sends that have a spare write worker, waiting or holding the send state
Spares == {g \in Fut : spare[g] > 0 \/ locks.send[g] = 2}

\* a worker that writes whatever the send state holds, without taking it
value_clone(p) == TRUE
\* state.value.take() in the write worker: Some(message) for the first
\* worker to lock the send state (p: the position of the send), None after
value_take(p) == p \in {"sending", "s_spawned"}

\* The task of f is woken by something else than this connection (another
\* branch of a join or select, a timer) and polls the suspended receive
\* future again.
Repoll(f) ==
  /\ kind[f] = "recv" /\ pc[f] = "wait" /\ ~notified[f]
  /\ repolls < MaxRepoll
  /\ repolls' = repolls + 1
  /\ notified' = [notified EXCEPT ![f] = TRUE]
  /\ UNCHANGED <<kind, req_id, pc, result, slot, values, requests, wakers,
                 closed, poisoned, reader, workers, sent, nread, broken,
                 written, atClose, afterClose, writer, out, spare, locks, early,
                 held, facadeVars, addrVars>>

\* The task of a plain send polls the SendFuture once more before any worker
\* has locked the send state: the poll locks the send state, result is still
\* None, so one more write worker is spawned.
SendRepoll(f) ==
  /\ kind[f] = "send" /\ pc[f] = "s_spawned"
  /\ locks.send[f] = 0
  /\ f \notin Spares /\ Cardinality(Spares) < MaxSpare
  /\ spare' = [spare EXCEPT ![f] = spare[f] + 1]
  /\ UNCHANGED <<kind, req_id, pc, notified, result, slot, values, requests,
                 wakers, closed, poisoned, reader, workers, sent, nread, broken,
                 written, atClose, afterClose, writer, out, locks, early, held, repolls,
                 facadeVars, addrVars>>

\* A further write worker of send f, line 52: it locks the send state once
\* the first worker has released it.
SendSpareState(f) ==
  /\ spare[f] > 0
  /\ pc[f] \notin {"sending", "s_spawned"}
  /\ locks.send[f] = 0
  /\ spare' = [spare EXCEPT ![f] = spare[f] - 1]
  /\ locks' = [locks EXCEPT !.send[f] = 2]
  /\ UNCHANGED <<kind, req_id, pc, notified, result, slot, values, requests,
                 wakers, closed, poisoned, reader, workers, sent, nread, broken,
                 written, atClose, afterClose, writer, out, early, held, repolls,
                 facadeVars, addrVars>>

\* A further write worker of send f, lines 54-74: lock the writer with the
\* send state held, write the message if value.take() gives one, wake the
\* task, drop both guards.
SendSpareWake(f) ==
  /\ locks.send[f] = 2
  /\ writer_lock(writer)
  /\ locks' = [locks EXCEPT !.send[f] = 0]
  /\ IF value_take(pc[f])
     THEN /\ out' = out \o <<[f |-> f, part |-> 1], [f |-> f, part |-> 2]>>
          /\ written' = Append(written, req_id[f])
     ELSE UNCHANGED <<out, written>>
  /\ notified' = Wake(notified, f)
  /\ UNCHANGED <<kind, req_id, pc, result, slot, values, requests, wakers,
                 closed, poisoned, reader, workers, sent, nread, broken,
                 atClose, afterClose, writer, spare, early, held, repolls, facadeVars,
                 addrVars>>

\* The steps of the library with spare write workers
PollStep ==
  \/ Step
  \/ \E f \in Fut : SendSpareState(f)
  \/ \E f \in Fut : SendSpareWake(f)

\* The connection with tasks that may poll a send future more often than
\* they are woken
PollNext ==
  \/ SendNext
  \/ \E f \in Fut : SendRepoll(f)
  \/ \E f \in Fut : SendSpareState(f)
  \/ \E f \in Fut : SendSpareWake(f)
PollSpec == Init /\ [][PollNext]_vars

\* The connection with tasks that may poll a receive future more often than
\* they are woken
RepollNext == Next \/ \E f \in Fut : Repoll(f)
RepollSpec == Init /\ [][RepollNext]_vars

\* Connection::is_closed(): lock the shared state (a panic when the mutex is
\* poisoned) and return the flag.
is_closed ==
  IF "state" \in poisoned THEN "panic" ELSE IF closed THEN "true" ELSE "false"

\* ------------------------------------------------------------- the façade
\* what `*next_req_id - 1` gives for a counter of 0: a panic (overflow checks
\* on) or usize::MAX (overflow checks off)
Underflow == -3
\* next_req_id.lock().unwrap() on a poisoned counter mutex: a panic
Panic == -4

\* a clone with a counter of its own
counter_own(c) == c
\* Clone for ZeroConnection clones the Arc: the counter cell of clone c is
\* the cell of the connection it was cloned from
counter(c) == 1

\* ZeroConnection::req_id(): with the counter's mutex held, increment the
\* counter and return it minus one
req_id_alloc(n) == [next |-> n + 1, id |-> (n + 1) - 1]

\* ZeroConnection::last_req_id() on clone c: what the call returns
last_req_id(c) ==
  IF counter(c) \in cpoisoned THEN Panic
  ELSE IF next_req_id[counter(c)] = 0 THEN Underflow
  ELSE next_req_id[counter(c)] - 1

\* ZeroConnection::last_req_id() on clone c, its effect: with a counter of 0
\* and overflow checks on, the subtraction panics while the guard of the
\* counter mutex is held, which poisons the mutex for every clone.  In every
\* other case (overflow checks off, a counter above 0, a mutex poisoned
\* already) the call changes nothing.
LastReqId(c) ==
  /\ counter(c) \notin cpoisoned
  /\ next_req_id[counter(c)] = 0
  /\ cpoisoned' = cpoisoned \cup {counter(c)}
  /\ UNCHANGED <<kind, req_id, pc, notified, result, slot, values, requests,
                 wakers, closed, poisoned, reader, workers, sent, nread, broken,
                 written, atClose, afterClose, sendVars, next_req_id, cpc, cid,
                 allocs, created, conn, addrVars>>

\* ZeroConnection::req_id() called by clone c from ZeroConnection::request
\* (a panic on a poisoned counter mutex).  The effect on the counter.
req_id_call(c) ==
  /\ cpc[c] = "idle"
  /\ Len(allocs) < MaxAlloc
  /\ next_req_id[counter(c)] <= MaxId
  /\ \E f \in Fut : pc[f] = "unused"
  /\ IF counter(c) \in cpoisoned
     THEN /\ cpc' = [cpc EXCEPT ![c] = "panicked"]
          /\ UNCHANGED <<next_req_id, cid, allocs>>
     ELSE LET r == req_id_alloc(next_req_id[counter(c)]) IN
          /\ next_req_id' = [next_req_id EXCEPT ![counter(c)] = r.next]
          /\ cid' = [cid EXCEPT ![c] = r.id]
          /\ allocs' = Append(allocs, r.id)
          /\ cpc' = [cpc EXCEPT ![c] = "allocated"]
  /\ UNCHANGED <<kind, req_id, pc, notified, result, slot, values, requests,
                 wakers, closed, poisoned, reader, workers, sent, nread, broken,
                 written, atClose, afterClose, sendVars, cpoisoned, created,
                 addrVars>>

\* ZeroConnection::request on clone c, first statement: allocate the id.
ReqId(c) == req_id_call(c) /\ UNCHANGED conn

\* ZeroConnection::request on clone c, lines 135-137: build the request
\* message with the allocated id and hand it to Connection::request, which
\* registers it in the pending map.
CreateMessage(c) ==
  /\ cpc[c] = "allocated"
  /\ \E f \in Fut : request(f, cid[c])
  /\ created' = Append(created, cid[c])
  /\ cpc' = [cpc EXCEPT ![c] = IF "state" \in poisoned THEN "panicked" ELSE "idle"]
  /\ UNCHANGED <<next_req_id, cpoisoned, cid, allocs, conn>>

connVars == <<kind, req_id, pc, notified, result, slot, values, requests,
              wakers, closed, poisoned, reader, workers, sent, nread, broken,
              written, atClose, afterClose, sendVars>>

\* what Connection::recv can resolve to: a decoded message (a request has no
\* `to`, a response has one) or an error
RecvResults ==
  {OkRes([to |-> t, seq |-> i]) : t \in Ids \cup {NoId}, i \in 1..MaxWire}
    \cup {ConnectionClosed, WriteError}

UnexpectedResponse == ErrRes("UnexpectedResponse")
UnexpectedRequest == ErrRes("UnexpectedRequest")

\* a recv() that hands on whatever the connection returned
facade_recv_any(r) == r
\* ZeroConnection::recv(): the match on self.connection.recv().await
facade_recv(r) ==
  IF r.kind # "ok" THEN r
  ELSE IF r.to # NoId THEN UnexpectedResponse
  ELSE r

\* ZeroConnection::request(): the match on
\* self.connection.request(message).await
facade_request(r) ==
  IF r.kind # "ok" THEN r
  ELSE IF r.to = NoId THEN UnexpectedRequest
  ELSE r

\* ZeroConnection::recv() on a clone: Connection::recv() creates the receive
\* future f, which the task polls; when it resolves to result[f] the call
\* returns facade_recv(result[f]) in the same poll.
FacadeRecv(f) == StartRecv(f)

\* Requests and receives made through clones of one ZeroConnection
FacadeNext ==
  \/ \E c \in Clones : ReqId(c)
  \/ \E c \in Clones : CreateMessage(c)
  \/ \E c \in Clones : LastReqId(c)
  \/ \E f \in Fut : FacadeRecv(f)
  \/ \E to \in Ids \cup {NoId} : PeerSend(to)
  \/ PeerClose
  \/ Step

FacadeSpec == Init /\ [][FacadeNext]_vars

\* PeerAddr::get_pair on an address of variant v: only IPV4 opens a
\* TcpStream (tcp: whether TcpStream::connect and try_clone succeed)
get_pair(v, tcp) ==
  IF v = "IPV4" THEN (IF tcp THEN "ok" ELSE "IoError") ELSE "TcpStreamError"

\* ZeroConnection::connect, `PeerAddr::parse(address)?`: v is the variant
\* parse returns, or "ParseError".
ConnectParse(v) ==
  /\ conn.pc = "start"
  /\ conn' = IF v = "ParseError"
             THEN [conn EXCEPT !.pc = "returned", !.out = "Err(ParseError)"]
             ELSE [conn EXCEPT !.pc = "parsed", !.variant = v]
  /\ UNCHANGED <<connVars, next_req_id, cpoisoned, cpc, cid, allocs, created,
                 addrVars>>

\* ZeroConnection::connect, `ZeroConnection::from_address(address).unwrap()`:
\* from_address returns the error of get_pair, and unwrap panics on it.  On
\* Ok the new connection is in the state after construction.
ConnectFromAddress(tcp) ==
  /\ conn.pc = "parsed"
  /\ conn' = IF get_pair(conn.variant, tcp) = "ok"
             THEN [conn EXCEPT !.pc = "connected"]
             ELSE [conn EXCEPT !.pc = "returned", !.out = "panic"]
  /\ UNCHANGED <<connVars, next_req_id, cpoisoned, cpc, cid, allocs, created,
                 addrVars>>

\* ZeroConnection::connect, `connection.request("handshake", ..)`, first
\* statement of ZeroConnection::request: req_id() on the new connection,
\* whose counter starts at 0.  The call goes on with CreateMessage, and its
\* future is polled by the task of connect.
ConnectHandshake ==
  /\ conn.pc = "connected"
  /\ req_id_call(1)
  /\ conn' = [conn EXCEPT !.pc = "requested"]

\* the future of the handshake request: the first one made on the new
\* connection
Handshake == 1

\* ZeroConnection::connect, `.await?` and `Ok(connection)`: what the call
\* has returned.  The poll in which the handshake request resolves returns
\* Ok(connection) or the request's error; a panic inside the request is a
\* panic of connect.
connect ==
  IF conn.out # "none" THEN conn.out
  ELSE IF conn.pc # "requested" THEN "none"
  ELSE IF pc[Handshake] = "panicked" \/ cpc[1] = "panicked" THEN "panic"
  ELSE IF pc[Handshake] # "done" THEN "none"
  ELSE IF facade_request(result[Handshake]).kind = "ok" THEN "Ok"
  ELSE "Err"

\* the transport of the new connection exists
connected == conn.pc \in {"connected", "requested"}

\* One ZeroConnection::connect call: the new connection is used by this call
\* alone, the peer answers or not
ConnectNext ==
  \/ \E v \in {"IPV4", "IPV6", "OnionV2", "ParseError"} : ConnectParse(v)
  \/ \E tcp \in BOOLEAN : ConnectFromAddress(tcp)
  \/ ConnectHandshake
  \/ CreateMessage(1)
  \/ \E to \in Ids \cup {NoId} : connected /\ PeerSend(to)
  \/ connected /\ PeerClose
  \/ RequestStep

ConnectSpec == Init /\ [][ConnectNext]_vars

\* ------------------------------------------------------- addresses
\* A string is the sequence of its character codes (ASCII); a byte string is
\* a sequence of numbers in 0..255.

\* F(e) with e evaluated once, before F's body
Apply(F(_), e) == CHOOSE r \in {F(v) : v \in {e}} : TRUE

\* str::to_lowercase on ASCII text
to_lowercase(s) ==
  [i \in 1..Len(s) |-> IF s[i] \in 65..90 THEN s[i] + 32 ELSE s[i]]

\* position of the first occurrence of character c in s, 0 if there is none
find(s, c) ==
  Apply(LAMBDA hits : IF hits = <<>> THEN 0 ELSE hits[1],
        SelectSeq([i \in 1..Len(s) |-> i], LAMBDA i : s[i] = c))

\* str::split on one character, collected into a Vec
RECURSIVE split(_, _)
split(str, c) ==
  Apply(LAMBDA s :
          Apply(LAMBDA at :
                  IF at = 0 THEN <<s>>
                  ELSE <<SubSeq(s, 1, at - 1)>> \o split(SubSeq(s, at + 1, Len(s)), c),
                find(s, c)),
        str)

\* str::strip_suffix: Some(rest) or None
strip_suffix(s, suffix) ==
  IF Len(s) >= Len(suffix) /\ SubSeq(s, Len(s) - Len(suffix) + 1, Len(s)) = suffix
  THEN [kind |-> "some", s |-> SubSeq(s, 1, Len(s) - Len(suffix))]
  ELSE None

\* the value of a string of decimal digits, saturating just above u16::MAX
RECURSIVE Decimal(_)
Decimal(str) ==
  Apply(LAMBDA s :
          IF s = <<>> THEN 0
          ELSE Apply(LAMBDA v : IF v > 65535 THEN 65536 ELSE v,
                     Decimal(SubSeq(s, 1, Len(s) - 1)) * 10 + (s[Len(s)] - 48)),
        str)

\* str::parse::<u16>: an optional '+', then one or more digits, no overflow;
\* -1 stands for Err(ParseIntError)
parse_u16(str) ==
  Apply(LAMBDA s :
          Apply(LAMBDA digits :
                  IF digits = <<>> \/ \E i \in 1..Len(digits) : digits[i] \notin 48..57
                  THEN -1
                  ELSE IF Decimal(digits) > 65535 THEN -1
                  ELSE Decimal(digits),
                IF s # <<>> /\ s[1] = 43 THEN Tail(s) ELSE s),
        str)

\* the decimal text of a number, as `{}` formats an unsigned integer
RECURSIVE fmt_int(_)
fmt_int(n) ==
  IF n < 10 THEN <<48 + n>> ELSE fmt_int(n \div 10) \o <<48 + (n % 10)>>

\* u16::to_le_bytes and u16::from_le_bytes
to_le_bytes(port) == <<port % 256, port \div 256>>
from_le_bytes(b) == b[1] + 256 * b[2]

\* the base32 alphabet "abcdefghijklmnopqrstuvwxyz234567": the 5-bit value
\* of a character (-1: not in the alphabet) and the character of a value
b32_value(c) ==
  IF c \in 97..122 THEN c - 97
  ELSE IF c \in 50..55 THEN c - 50 + 26
  ELSE -1
b32_char(v) == IF v < 26 THEN 97 + v ELSE 50 + (v - 26)

\* bit k (from 0, most significant first) of a sequence of w-bit units, 0
\* beyond its end
BitOf(units, w, k) ==
  IF (k \div w) + 1 > Len(units) THEN 0
  ELSE (units[(k \div w) + 1] \div (2 ^ (w - 1 - (k % w)))) % 2

\* the number made of the n bits from bit k on
RECURSIVE Bits(_, _, _, _)
Bits(units, w, k, n) ==
  IF n = 0 THEN 0
  ELSE 2 * Bits(units, w, k, n - 1) + BitOf(units, w, k + n - 1)

\* base32::encode: every 5 bits of the bytes give a character, the last
\* character padded with zero bits; no '=' padding
encode(array) ==
  Apply(LAMBDA bytes :
          [i \in 1..((Len(bytes) * 8 + 4) \div 5) |->
             b32_char(Bits(bytes, 8, 5 * (i - 1), 5))],
        array)

\* base32::decode: Err on a character outside the alphabet; every 8 bits
\* give a byte. Bits left over after the last whole byte are dropped when
\* lax is TRUE; otherwise a length no encoding has, or left-over bits that
\* are not zero, give Err.
decode(str, lax) ==
  Apply(LAMBDA s :
          LET v == [i \in 1..Len(s) |-> b32_value(s[i])]
              n == (Len(s) * 5) \div 8
              rest == Bits(v, 5, 8 * n, Len(s) * 5 - 8 * n)
          IN IF \E i \in 1..Len(s) : v[i] = -1 THEN [kind |-> "err"]
             ELSE IF ~lax /\ (rest # 0 \/ (Len(s) % 8) \in {1, 3, 6}) THEN [kind |-> "err"]
             ELSE [kind |-> "ok", bytes |-> [j \in 1..n |-> Bits(v, 5, 8 * (j - 1), 8)]],
        str)

\* --- std::net text forms (the library behind str::parse::<SocketAddr> and
\* SocketAddr's Display)

\* one decimal octet: 1 to 3 digits, no zero prefix, at most 255; -1 if not
parse_octet(str) ==
  Apply(LAMBDA s :
          IF Len(s) \notin 1..3 \/ \E i \in 1..Len(s) : s[i] \notin 48..57 THEN -1
          ELSE IF Len(s) > 1 /\ s[1] = 48 THEN -1
          ELSE IF Decimal(s) > 255 THEN -1
          ELSE Decimal(s),
        str)

\* Ipv4Addr from "a.b.c.d"
parse_ipv4(str) ==
  Apply(LAMBDA p :
          IF Len(p) = 4 /\ \A i \in 1..4 : parse_octet(p[i]) # -1
          THEN [kind |-> "ok", octets |-> <<parse_octet(p[1]), parse_octet(p[2]),
                                            parse_octet(p[3]), parse_octet(p[4])>>]
          ELSE None,
        split(str, 46))

\* the port of a socket address: digits only, no overflow; -1 if not
parse_port(str) ==
  Apply(LAMBDA s :
          IF s = <<>> \/ \E i \in 1..Len(s) : s[i] \notin 48..57 THEN -1
          ELSE IF Decimal(s) > 65535 THEN -1
          ELSE Decimal(s),
        str)

hex_value(c) ==
  IF c \in 48..57 THEN c - 48
  ELSE IF c \in 97..102 THEN c - 87
  ELSE IF c \in 65..70 THEN c - 55
  ELSE -1

\* one group of an IPv6 address: 1 to 4 hex digits; -1 if not
RECURSIVE parse_group(_)
parse_group(str) ==
  Apply(LAMBDA s :
          IF Len(s) \notin 1..4 \/ \E i \in 1..Len(s) : hex_value(s[i]) = -1 THEN -1
          ELSE IF Len(s) = 1 THEN hex_value(s[1])
          ELSE 16 * parse_group(SubSeq(s, 1, Len(s) - 1)) + hex_value(s[Len(s)]),
        str)

\* the 16-bit groups of colon-separated text; with v4 the last part may be
\* a dotted IPv4 address, which gives two groups
read_groups(str, v4) ==
  Apply(LAMBDA p :
          Apply(LAMBDA quad :
                  LET tail4 == v4 /\ quad.kind = "ok"
                      m == IF tail4 THEN Len(p) - 1 ELSE Len(p)
                  IN IF p = <<<<>>>> THEN [kind |-> "ok", groups |-> <<>>]
                     ELSE IF \E i \in 1..m : parse_group(p[i]) = -1 THEN None
                     ELSE [kind |-> "ok",
                           groups |-> [i \in 1..m |-> parse_group(p[i])] \o
                                      (IF tail4
                                       THEN <<256 * quad.octets[1] + quad.octets[2],
                                              256 * quad.octets[3] + quad.octets[4]>>
                                       ELSE <<>>)],
                parse_ipv4(p[Len(p)])),
        split(str, 58))

\* Ipv6Addr from text: eight groups, or fewer around one "::"
parse_ipv6(str) ==
  Apply(LAMBDA s :
    Apply(LAMBDA dcs :
      IF dcs = <<>>
      THEN Apply(LAMBDA whole :
                   IF s # <<>> /\ whole.kind = "ok" /\ Len(whole.groups) = 8
                   THEN whole ELSE None,
                 read_groups(s, TRUE))
      ELSE Apply(LAMBDA head :
             Apply(LAMBDA tail :
                     IF head.kind = "ok" /\ tail.kind = "ok"
                          /\ Len(head.groups) + Len(tail.groups) <= 7
                     THEN [kind |-> "ok",
                           groups |->
                             head.groups \o
                             [i \in 1..(8 - Len(head.groups) - Len(tail.groups)) |-> 0] \o
                             tail.groups]
                     ELSE None,
                   read_groups(SubSeq(s, dcs[1] + 2, Len(s)), TRUE)),
             read_groups(SubSeq(s, 1, dcs[1] - 1), FALSE)),
      SelectSeq([i \in 1..(Len(s) - 1) |-> i], LAMBDA i : s[i] = 58 /\ s[i + 1] = 58)),
    str)

\* the 16 octets of eight groups, and back
octets_of(groups) ==
  Apply(LAMBDA g : [i \in 1..16 |-> IF i % 2 = 1 THEN g[(i + 1) \div 2] \div 256
                                    ELSE g[i \div 2] % 256],
        groups)
segments(octets) == [i \in 1..8 |-> 256 * octets[2 * i - 1] + octets[2 * i]]

\* a string of digits without its leading zeros
RECURSIVE strip_zeros(_)
strip_zeros(s) == IF s # <<>> /\ s[1] = 48 THEN strip_zeros(Tail(s)) ELSE s

\* the zone id of a socket address, the text after '%': one or more digits
\* (leading zeros allowed) whose value fits a u32, that is, is at most
\* "4294967295" (max)
parse_scope_id(str) ==
  LET max == <<52, 50, 57, 52, 57, 54, 55, 50, 57, 53>>
  IN Apply(LAMBDA s :
             /\ s # <<>> /\ \A i \in 1..Len(s) : s[i] \in 48..57
             /\ Apply(LAMBDA d :
                        \/ Len(d) < Len(max)
                        \/ /\ Len(d) = Len(max)
                           /\ \A i \in 1..Len(d) :
                                (\A j \in 1..(i - 1) : d[j] = max[j]) => d[i] <= max[i],
                      strip_zeros(s)),
           str)

\* the address inside the brackets of "[ipv6%zone]": the text before '%'
\* when the zone id after it is valid, all of it when there is no '%'
scoped_ipv6(str) ==
  Apply(LAMBDA s :
          Apply(LAMBDA pct :
                  IF pct = 0 THEN parse_ipv6(s)
                  ELSE IF parse_scope_id(SubSeq(s, pct + 1, Len(s)))
                  THEN parse_ipv6(SubSeq(s, 1, pct - 1))
                  ELSE None,
                find(s, 37)),
        str)

\* str::parse::<SocketAddr>: "a.b.c.d:port" or "[ipv6]:port", the latter
\* also as "[ipv6%zone]:port"; the zone id is not part of the octets
parse_socket_addr(str) ==
  Apply(LAMBDA s :
    IF s # <<>> /\ s[1] = 91
    THEN Apply(LAMBDA close :
           IF close > 0 /\ Len(s) > close /\ s[close + 1] = 58
           THEN Apply(LAMBDA ip6 :
                        IF ip6.kind = "ok" /\ parse_port(SubSeq(s, close + 2, Len(s))) # -1
                        THEN [kind |-> "ok", variant |-> "V6",
                              ip |-> octets_of(ip6.groups),
                              port |-> parse_port(SubSeq(s, close + 2, Len(s)))]
                        ELSE None,
                      scoped_ipv6(SubSeq(s, 2, close - 1)))
           ELSE None,
         find(s, 93))
    ELSE Apply(LAMBDA p4 :
           IF Len(p4) = 2 /\ parse_ipv4(p4[1]).kind = "ok" /\ parse_port(p4[2]) # -1
           THEN [kind |-> "ok", variant |-> "V4", ip |-> parse_ipv4(p4[1]).octets,
                 port |-> parse_port(p4[2])]
           ELSE None,
         split(s, 58)),
    str)

\* `{:x}` of a number
RECURSIVE fmt_hex(_)
fmt_hex(n) ==
  LET d == n % 16
      c == IF d < 10 THEN 48 + d ELSE 87 + d
  IN IF n < 16 THEN <<c>> ELSE fmt_hex(n \div 16) \o <<c>>

\* the parts of s joined with character c
RECURSIVE join(_, _)
join(strs, c) ==
  Apply(LAMBDA parts :
          IF parts = <<>> THEN <<>>
          ELSE IF Len(parts) = 1 THEN parts[1]
          ELSE parts[1] \o <<c>> \o join(Tail(parts), c),
        strs)

\* Display of Ipv4Addr
fmt_ipv4(octets) == join([i \in 1..4 |-> fmt_int(octets[i])], 46)

\* Display of Ipv6Addr: an IPv4-mapped address as "::ffff:a.b.c.d";
\* otherwise lower-case hex groups with the first longest run of two or more
\* zero groups written "::"
fmt_ipv6(octets) ==
  Apply(LAMBDA g :
  LET run(i) == IF g[i] # 0 THEN 0
                ELSE (CHOOSE j \in i..8 :
                        /\ \A k \in i..j : g[k] = 0
                        /\ (j = 8 \/ g[j + 1] # 0)) - i + 1
      best == CHOOSE i \in 1..8 :
                /\ \A j \in 1..8 : run(j) <= run(i)
                /\ \A j \in 1..(i - 1) : run(j) < run(i)
      hex(a, b) == join([i \in 1..(b - a + 1) |-> fmt_hex(g[a + i - 1])], 58)
  IN IF \A i \in 1..5 : g[i] = 0 /\ g[6] = 65535
     THEN <<58, 58, 102, 102, 102, 102, 58>> \o fmt_ipv4(SubSeq(octets, 13, 16))
     ELSE IF run(best) < 2 THEN hex(1, 8)
     ELSE hex(1, best - 1) \o <<58, 58>> \o hex(best + run(best), 8),
  segments(octets))

\* Display of SocketAddr
fmt_socket_addr(variant, ip, port) ==
  IF variant = "V4" THEN fmt_ipv4(ip) \o <<58>> \o fmt_int(port)
  ELSE <<91>> \o fmt_ipv6(ip) \o <<93, 58>> \o fmt_int(port)

\* --- PeerAddr
\* the suffixes ".onion", ".b32.i2p" and ".loki"
ONION == <<46, 111, 110, 105, 111, 110>>
B32_I2P == <<46, 98, 51, 50, 46, 105, 50, 112>>
LOKI == <<46, 108, 111, 107, 105>>

\* a PeerAddr value: IPV4/IPV6 hold the octets, the others the label
PeerAddr(variant, host, port) == [variant |-> variant, host |-> host, port |-> port]
Ok(v) == [kind |-> "ok", v |-> v]
Err(e) == [kind |-> "err", e |-> e]
WrongLength(l) == [kind |-> "err", e |-> "WrongLength", length |-> l]
InvalidBytearray(l) == [kind |-> "err", e |-> "InvalidBytearray", length |-> l]

\* From<SocketAddr> for PeerAddr
from_socket_addr(sa) ==
  PeerAddr(IF sa.variant = "V4" THEN "IPV4" ELSE "IPV6", sa.ip, sa.port)

\* PeerAddr::parse
parse(address) ==
  Apply(LAMBDA socket_address :
    IF socket_address.kind = "ok" THEN Ok(from_socket_addr(socket_address))
    ELSE Apply(LAMBDA parts :
           IF Len(parts) < 2 THEN Err("MissingPort")
           ELSE Apply(LAMBDA port :
                  LET onion == strip_suffix(parts[1], ONION)
                      i2p == strip_suffix(parts[1], B32_I2P)
                      loki == strip_suffix(parts[1], LOKI)
                  IN IF port = -1 THEN Err("ParseIntError")
                     ELSE IF onion.kind = "some"
                          THEN IF Len(onion.s) = 16
                               THEN Ok(PeerAddr("OnionV2", onion.s, port))
                               ELSE IF Len(onion.s) = 56
                               THEN Ok(PeerAddr("OnionV3", onion.s, port))
                               ELSE WrongLength(Len(onion.s))
                     ELSE IF i2p.kind = "some" THEN Ok(PeerAddr("I2PB32", i2p.s, port))
                     ELSE IF loki.kind = "some" THEN Ok(PeerAddr("Loki", loki.s, port))
                     ELSE Err("UnrecognizedAddressFormat"),
                  parse_u16(parts[2])),
         split(address, 58)),
    parse_socket_addr(address))

\* PeerAddr::unpack: the length alone selects the variant
unpack(bytes) ==
  LET l == Len(bytes)
      port == from_le_bytes(SubSeq(bytes, l - 1, l))
      array == SubSeq(bytes, 1, l - 2)
  IN IF l = 6 THEN Ok(PeerAddr("IPV4", array, port))
     ELSE IF l = 18 THEN Ok(PeerAddr("IPV6", array, port))
     ELSE IF l = 12 THEN Ok(PeerAddr("OnionV2", encode(array), port))
     ELSE IF l = 34 THEN Ok(PeerAddr("I2PB32", encode(array), port))
     ELSE IF l = 37 THEN Ok(PeerAddr("OnionV3", encode(array), port))
     ELSE InvalidBytearray(l)

\* PeerAddr::pack: the octets, or the bytes the lower-cased label decodes
\* to, then the port; unwrap panics when the label does not decode, and
\* Loki is unimplemented!()
pack(a, lax) ==
  IF a.variant \in {"IPV4", "IPV6"}
  THEN [kind |-> "bytes", b |-> a.host \o to_le_bytes(a.port)]
  ELSE IF a.variant = "Loki" THEN [kind |-> "panic"]
  ELSE Apply(LAMBDA bytes :
               IF bytes.kind = "err" THEN [kind |-> "panic"]
               ELSE [kind |-> "bytes", b |-> bytes.bytes \o to_le_bytes(a.port)],
             decode(to_lowercase(a.host), lax))

\* a to_string that writes an IPv6 socket address without the brackets
to_string_bare(a) ==
  IF a.variant = "IPV4" THEN fmt_socket_addr("V4", a.host, a.port)
  ELSE IF a.variant = "IPV6" THEN fmt_ipv6(a.host) \o <<58>> \o fmt_int(a.port)
  ELSE IF a.variant \in {"OnionV2", "OnionV3"} THEN a.host \o ONION \o <<58>> \o fmt_int(a.port)
  ELSE IF a.variant = "I2PB32" THEN a.host \o B32_I2P \o <<58>> \o fmt_int(a.port)
  ELSE a.host \o LOKI \o <<58>> \o fmt_int(a.port)

\* PeerAddr::to_string
to_string(a) ==
  IF a.variant = "IPV4" THEN fmt_socket_addr("V4", a.host, a.port)
  ELSE IF a.variant = "IPV6" THEN fmt_socket_addr("V6", a.host, a.port)
  ELSE IF a.variant \in {"OnionV2", "OnionV3"} THEN a.host \o ONION \o <<58>> \o fmt_int(a.port)
  ELSE IF a.variant = "I2PB32" THEN a.host \o B32_I2P \o <<58>> \o fmt_int(a.port)
  ELSE a.host \o LOKI \o <<58>> \o fmt_int(a.port)

\* --- the addresses the operations are applied to
\* the labels of the repository's tests: "ytcnzluhaxidtbf4",
\* "trackd5xiih3z7xyvvkyz2n65lehqziayjpxzsau3mwccwlelxrdrgid" and
\* "udhdrtrcetjm5sxzskjyr5ztpeszydbh4dpl3pl4utgqqw2v4jna"
LabelV2 == <<121, 116, 99, 110, 122, 108, 117, 104, 97, 120, 105, 100, 116, 98, 102, 52>>
LabelV3 ==
  <<116, 114, 97, 99, 107, 100, 53, 120, 105, 105, 104, 51, 122, 55, 120, 121,
    118, 118, 107, 121, 122, 50, 110, 54, 53, 108, 101, 104, 113, 122, 105, 97,
    121, 106, 112, 120, 122, 115, 97, 117, 51, 109, 119, 99, 99, 119, 108, 101,
    108, 120, 114, 100, 114, 103, 105, 100>>
LabelI2P ==
  <<117, 100, 104, 100, 114, 116, 114, 99, 101, 116, 106, 109, 53, 115, 120, 122,
    115, 107, 106, 121, 114, 53, 122, 116, 112, 101, 115, 122, 121, 100, 98, 104,
    52, 100, 112, 108, 51, 112, 108, 52, 117, 116, 103, 113, 113, 119, 50, 118,
    52, 106, 110, 97>>

\* a label as it is, in upper case, one character short, ending in "b" and
\* starting with "1"
Variants(l) ==
  { l,
    [i \in 1..Len(l) |-> IF l[i] \in 97..122 THEN l[i] - 32 ELSE l[i]],
    SubSeq(l, 1, Len(l) - 1),
    SubSeq(l, 1, Len(l) - 1) \o <<98>>,
    <<49>> \o Tail(l) }
Labels == Variants(LabelV2) \cup Variants(LabelV3) \cup Variants(LabelI2P) \cup {<<>>}

\* ".onion", ".b32.i2p", ".loki", ".com" and no suffix
Suffixes == {ONION, B32_I2P, LOKI, <<46, 99, 111, 109>>, <<>>}
\* ":4321", ":0", ":65535", ":65536", ":+80", ":" and no port
PortTexts ==
  { <<58, 52, 51, 50, 49>>, <<58, 48>>, <<58, 54, 53, 53, 51, 53>>,
    <<58, 54, 53, 53, 51, 54>>, <<58, 43, 56, 48>>, <<58>>, <<>> }

\* "127.0.0.1", "256.1.1.1", "1.2.3", "[2001:db8::ff00:42:8329]",
\* "[1001:2002:3003:4004:5005:6006:7007:8008]", "[::1]", "::1",
\* "[::ffff:1.2.3.4]", "[1:0:0:2::3]", "[FE80::A]", "example", "[::1",
\* "[fe80::1%5]", "[::1%4294967295]", "[::1%4294967296]", "[::1%]"
HostTexts ==
  { <<49, 50, 55, 46, 48, 46, 48, 46, 49>>,
    <<50, 53, 54, 46, 49, 46, 49, 46, 49>>,
    <<49, 46, 50, 46, 51>>,
    <<91, 50, 48, 48, 49, 58, 100, 98, 56, 58, 58, 102, 102, 48, 48, 58, 52, 50,
      58, 56, 51, 50, 57, 93>>,
    <<91, 49, 48, 48, 49, 58, 50, 48, 48, 50, 58, 51, 48, 48, 51, 58, 52, 48, 48,
      52, 58, 53, 48, 48, 53, 58, 54, 48, 48, 54, 58, 55, 48, 48, 55, 58, 56, 48,
      48, 56, 93>>,
    <<91, 58, 58, 49, 93>>,
    <<58, 58, 49>>,
    <<91, 58, 58, 102, 102, 102, 102, 58, 49, 46, 50, 46, 51, 46, 52, 93>>,
    <<91, 49, 58, 48, 58, 48, 58, 50, 58, 58, 51, 93>>,
    <<91, 70, 69, 56, 48, 58, 58, 65, 93>>,
    <<101, 120, 97, 109, 112, 108, 101>>,
    <<91, 58, 58, 49>>,
    <<91, 102, 101, 56, 48, 58, 58, 49, 37, 53, 93>>,
    <<91, 58, 58, 49, 37, 52, 50, 57, 52, 57, 54, 55, 50, 57, 53, 93>>,
    <<91, 58, 58, 49, 37, 52, 50, 57, 52, 57, 54, 55, 50, 57, 54, 93>>,
    <<91, 58, 58, 49, 37, 93>> }

\* the strings handed to parse
Texts ==
  {l \o s \o p : l \in Labels, s \in Suffixes, p \in PortTexts}
    \cup {h \o p : h \in HostTexts, p \in PortTexts}

\* the ports and octets of the values constructed directly
Ports == {0, 4321, 65535}
Octets4 == {<<127, 0, 0, 1>>, <<0, 0, 0, 0>>, <<255, 255, 255, 255>>}
Octets16 ==
  { [i \in 1..16 |-> 0], [i \in 1..16 |-> IF i = 16 THEN 1 ELSE 0],
    [i \in 1..16 |-> 255], [i \in 1..16 |-> IF i \in {1, 2, 9} THEN i ELSE 0],
    <<0, 0, 0, 0, 0, 0, 0, 0, 0, 0, 255, 255, 1, 2, 3, 4>>,
    <<0, 0, 0, 0, 0, 0, 0, 0, 0, 0, 0, 0, 1, 2, 3, 4>> }
\* the PeerAddr values constructed directly, variant by variant
Values ==
  {PeerAddr(v, l, p) : v \in {"OnionV2", "OnionV3", "I2PB32", "Loki"}, l \in Labels, p \in Ports}
    \cup {PeerAddr("IPV4", o, p) : o \in Octets4, p \in Ports}
    \cup {PeerAddr("IPV6", o, p) : o \in Octets16, p \in Ports}

\* the byte strings handed to unpack: every length up to MaxBytes
Bytes == {[i \in 1..n |-> b] : n \in 0..MaxBytes, b \in {0, 196, 255}}

\* what the operations start from: a string for parse, a constructed value,
\* or bytes for unpack
AddrInit ==
  /\ ConnInit
  /\ lenient \in BOOLEAN
  /\ \/ /\ input \in {[kind |-> "str", s |-> t] : t \in Texts}
        /\ value = None
        /\ packed = None
     \/ /\ input = [kind |-> "value"]
        /\ value \in {Ok(v) : v \in Values}
        /\ packed = None
     \/ /\ input = [kind |-> "bytes"]
        /\ value = None
        /\ packed \in {[kind |-> "bytes", b |-> b] : b \in Bytes}
  /\ parsed = None
  /\ unpacked = None
  /\ shown = None
  /\ reparsed = None

\* PeerAddr::parse(input)
AddrParse ==
  /\ input.kind = "str"
  /\ parsed = None
  /\ parsed' = parse(input.s)
  /\ value' = IF parse(input.s).kind = "ok" THEN parse(input.s) ELSE value
  /\ UNCHANGED <<connVars, facadeVars, lenient, input, packed, unpacked, shown, reparsed>>

\* value.pack()
AddrPack ==
  /\ value.kind = "ok"
  /\ packed = None
  /\ packed' = pack(value.v, lenient)
  /\ UNCHANGED <<connVars, facadeVars, lenient, input, parsed, value, unpacked, shown, reparsed>>

\* PeerAddr::unpack(&packed); bytes that were handed in give the value
AddrUnpack ==
  /\ packed.kind = "bytes"
  /\ unpacked = None
  /\ unpacked' = unpack(packed.b)
  /\ value' = IF input.kind = "bytes" /\ unpack(packed.b).kind = "ok"
              THEN unpack(packed.b) ELSE value
  /\ UNCHANGED <<connVars, facadeVars, lenient, input, parsed, packed, shown, reparsed>>

\* value.to_string()
AddrToString ==
  /\ value.kind = "ok"
  /\ shown = None
  /\ shown' = [kind |-> "str", s |-> to_string(value.v)]
  /\ UNCHANGED <<connVars, facadeVars, lenient, input, parsed, value, packed, unpacked, reparsed>>

\* PeerAddr::parse(shown)
AddrReparse ==
  /\ shown.kind = "str"
  /\ reparsed = None
  /\ reparsed' = parse(shown.s)
  /\ UNCHANGED <<connVars, facadeVars, lenient, input, parsed, value, packed, unpacked, shown>>

AddrNext == AddrParse \/ AddrPack \/ AddrUnpack \/ AddrToString \/ AddrReparse

AddrSpec == AddrInit /\ [][AddrNext]_vars

\* ================================================================== claims
Requests == {f \in Fut : kind[f] = "req"}
Receivers == {f \in Fut : kind[f] = "recv"}
\* a future whose task is parked with no wake pending
Suspended(f) == pc[f] = "wait" /\ ~notified[f]
\* positions of the stream holding unsolicited messages / already decoded
Unsolicited == {i \in 1..Len(sent) : sent[i] = NoId}
Decoded == 1..nread
\* wire positions of the messages returned by receive calls
Returned == {result[f].seq : f \in {g \in Receivers : result[g].kind = "ok"}}

\* C1: a request that resolves to Ok(r) gets a response whose `to` is its own
\* req_id, whatever else happens on the connection.
C1_ResponseMatchesRequest ==
  \A f \in Requests : result[f].kind = "ok" => result[f].to = req_id[f]

C1_Witness ==
  \E f \in Requests, g \in Fut :
    /\ g # f /\ kind[g] # "unused"
    /\ result[f].kind = "ok" /\ result[f].to = req_id[f]

\* C4: no unsolicited message is returned by two receive calls, and a message
\* that was returned, or that a poll has popped and is about to return, is no
\* longer in the inbox and is in no other receiver's hands.
C4_DeliveredAtMostOnce ==
  /\ \A f, g \in Receivers :
       (f # g /\ result[f].kind = "ok" /\ result[g].kind = "ok")
         => result[f].seq # result[g].seq
  /\ \A f \in Receivers, i \in DOMAIN values :
       (result[f].kind = "ok" /\ values[i].kind = "ok")
         => values[i].seq # result[f].seq
  /\ \A f \in Receivers :
       held[f].kind = "ok" =>
         /\ \A i \in DOMAIN values : values[i].kind = "ok" => values[i].seq # held[f].seq
         /\ \A g \in Receivers \ {f} :
              /\ result[g].kind = "ok" => result[g].seq # held[f].seq
              /\ held[g].kind = "ok" => held[g].seq # held[f].seq

\* one receiver has returned a message; the other has popped the next one
\* from the inbox between the worker's push and the worker's wake, the
\* worker still holding the state mutex
C4_Witness ==
  \E f, g \in Receivers, w \in Wk :
    /\ f # g /\ result[g].kind = "ok"
    /\ pc[f] = "r1" /\ held[f].kind = "ok"
    /\ workers[w].st = "pushed" /\ locks.state = WorkerId(w)

\* read worker w, holding the state mutex, dispatches the message it has
\* decoded (Msg(nread)) in this step
Dispatches(w) == workers[w].st = "dispatch" /\ workers'[w].st # "dispatch"

\* the step in which read worker w, the state mutex taken, looks up the id
\* of the response it has decoded in the pending map
Looks(w) ==
  /\ HasResponse(w) /\ workers'[w] # workers[w]
  /\ "state" \notin poisoned

\* the step in which a worker finds the id of its response pending
C7_Arrival ==
  \E w \in Wk : Looks(w) /\ requests[Msg(nread).to] # NoEntry

C7_Step ==
  /\ C7_Arrival =>
       /\ requests'[Msg(nread).to] = NoEntry
       /\ \E w \in Wk : workers'[w].entry = requests[Msg(nread).to]
       /\ values' = values
  /\ \A w \in Wk :
       (Dispatches(w) /\ Msg(nread).to # NoId) =>
         /\ slot'[workers[w].entry.slot] = OkRes(Msg(nread))
         /\ values' = values

C7_Exclusive ==
  \A f \in Requests :
    \A r \in {slot[f], held[f], result[f]} :
      r.kind = "ok" =>
        /\ \A i \in DOMAIN values : values[i].seq # r.seq
        /\ \A g \in Receivers : result[g].seq # r.seq

\* C7: a response that arrives while its request is pending goes to that
\* request's slot and leaves the pending map; it is not pushed onto the inbox
\* and no receive call returns it.
C7_ResponseOnlyInSlot == [][C7_Step]_vars /\ []C7_Exclusive

C7_Witness ==
  \E f \in Requests : slot[f].kind = "ok" /\ slot[f].to = req_id[f]

\* C3: unsolicited messages are returned in wire order: once a message has
\* been returned, every unsolicited message decoded before it has been
\* returned too.
C3_WireOrder ==
  \A s2 \in Returned, s1 \in Unsolicited \cap Decoded :
    s1 < s2 => s1 \in Returned

\* the step in which a worker, having pushed an unsolicited message onto the
\* inbox, pops a waker
UnsolicitedArrival ==
  \E w \in Wk : workers[w].st = "pushed" /\ workers'[w].st # "pushed"

C6_Step ==
  ( /\ UnsolicitedArrival
    /\ wakers # <<>>
    /\ \A i \in DOMAIN wakers : wakers[i] \in Receivers /\ Suspended(wakers[i])
    /\ \A i, j \in DOMAIN wakers : i # j => wakers[i] # wakers[j] )
  => notified'[wakers[1]]

\* C6: when an unsolicited message arrives while several receivers are
\* suspended, the one woken is the one that registered first.
C6_FifoWake == [][C6_Step]_vars

\* the step in which a worker finds the id of its response not pending
OrphanArrival ==
  \E w \in Wk : Looks(w) /\ requests[Msg(nread).to] = NoEntry

C8_Step ==
  OrphanArrival
  => /\ values' = Append(values, OkRes(Msg(nread)))
     /\ requests' = requests
     /\ closed' = closed
     /\ poisoned' = poisoned

\* C8: a response whose id has no pending entry is pushed onto the inbox, and
\* the worker does not fail: pending map and closed flag are unchanged and no
\* lock is left poisoned.
C8_OrphanEnqueued == [][C8_Step]_vars

\* No step of the library is possible: every task is parked, blocked or
\* finished and every worker is blocked.  Under fair scheduling the connection stays in
\* such a state for ever unless a new call or a new message arrives.
Quiescent == ~ENABLED Step

\* the send of request f has not resolved yet / has resolved to an error
InSend(f) == pc[f] = "registered" \/ Sending(f)
SendFailed(f) == result[f] \in {WriteError, EncodeError}

\* N requests with pairwise distinct ids, every send done, and the peer has
\* answered each of them exactly once and sent nothing else
C2_Scenario ==
  /\ Receivers = {} /\ Requests # {}
  /\ ~broken /\ poisoned = {}
  /\ \A f \in Requests : req_id[f] # NoId /\ ~InSend(f) /\ ~SendFailed(f)
  /\ \A f, g \in Requests : f # g => req_id[f] # req_id[g]
  /\ Len(sent) = Cardinality(Requests)
  /\ \A f \in Requests : \E i \in DOMAIN sent : sent[i] = req_id[f]

\* C2: when N concurrent requests with distinct ids have each been answered
\* once, the connection does not come to rest before every request has
\* resolved to the response carrying its own id.
C2_AllRequestsResolve ==
  (C2_Scenario /\ Quiescent)
    => \A f \in Requests : result[f].kind = "ok" /\ result[f].to = req_id[f]

\* k receive calls, k unsolicited messages written by the peer, no failure
C5_Scenario ==
  /\ Requests = {} /\ Receivers # {}
  /\ ~broken /\ poisoned = {}
  /\ Unsolicited = DOMAIN sent
  /\ Len(sent) = Cardinality(Receivers)

\* C5: when k unsolicited messages have arrived for k receive calls, the
\* connection does not come to rest before every receive call has resolved
\* to Ok.
C5_AllReceiversResolve ==
  (C5_Scenario /\ Quiescent) => \A f \in Receivers : result[f].kind = "ok"

\* a request whose send is done and whose slot close_connection has filled
C9_Closed(f) == pc[f] = "wait" /\ slot[f] = ConnectionClosed

C9_Resolves == \A f \in Requests : C9_Closed(f) => ~Quiescent

\* a step of close_connection
Closes == \E w \in Wk : workers[w].st = "closing" /\ workers'[w] # workers[w]

C9_Keeps ==
  \A f \in Requests :
    (slot[f].kind = "ok" /\ Closes) => slot'[f] = slot[f]

\* C9: after a read failure every outstanding request whose slot was empty
\* goes on to resolve to Err(ConnectionClosed) (the connection does not come
\* to rest with such a request still parked), and a slot holding a response
\* keeps it.
C9_CloseResolvesRequests == []C9_Resolves /\ [][C9_Keeps]_vars

\* the step in which close_connection, after a failed read, empties `wakers`
CloseStep ==
  \E w \in Wk : workers[w].st = "closing" /\ workers'[w].st = "release"

\* a receive future whose waker is registered and that has not been woken:
\* parked, or about to return Pending
Waiting(f) == pc[f] \in {"r3", "wait"} /\ ~notified[f]

C10_Step ==
  CloseStep =>
    /\ \A f \in Receivers : Waiting(f) => notified'[f]
    /\ Len(values') - Len(values) = Cardinality({f \in Receivers : Waiting(f)})

C10_Outcome ==
  \A f \in atClose :
    /\ result[f].kind \in {"none", "ConnectionClosed"}
    /\ result[f].kind = "none" => ~Quiescent

\* C10: a read failure wakes every suspended receive future, pushes exactly
\* one Err(ConnectionClosed) per suspended receive future, and each of them
\* resolves to Err(ConnectionClosed).
C10_CloseWakesReceivers == [][C10_Step]_vars /\ []C10_Outcome

\* C12: a receive or a request created after closed became true resolves to
\* Err(ConnectionClosed): never to Ok(message), even with messages left in the
\* inbox, and the connection does not come to rest with it still pending.
\* (Requests whose write fails or whose message has no req_id are left out.)
C12_AfterCloseFailsFast ==
  \A f \in afterClose :
    (kind[f] \in {"recv", "req"}
       /\ result[f] \notin {WriteError, EncodeError, MissingReqId}) =>
      /\ result[f].kind \in {"none", "ConnectionClosed"}
      /\ result[f].kind = "none" => ~Quiescent


\* C15: a request whose message has no req_id resolves to
\* Err(MissingReqId), whatever the outcome of its write, and the connection
\* does not come to rest with it still pending.
C15_MissingReqId ==
  \A f \in Requests :
    (req_id[f] = NoId /\ poisoned = {}) =>
      /\ pc[f] = "done" => result[f] = MissingReqId
      /\ pc[f] # "done" => ~Quiescent

\* the step in which the send of request f returns its error
SendFails(f) ==
  /\ kind[f] = "req" /\ pc[f] \in {"s_io", "s_enc"}
  /\ pc'[f] = "done" /\ result'[f].kind \in {"Io", "Encode"}

C16_Step ==
  \A f \in Fut :
    SendFails(f) =>
      /\ closed' = closed
      /\ req_id[f] # NoId => requests'[req_id[f]].slot # f

\* C16: when the encoding or the write of a request fails, the error is
\* returned, closed is not changed and the pending map holds no entry of the
\* failed call.
C16_FailedSendLeavesNothing == [][C16_Step]_vars

\* a step of the worker whose read met undecodable bytes, after the read
DecodeError ==
  \E w \in Wk : workers[w].response = "decode" /\ workers'[w] # workers[w]

C17_Step ==
  DecodeError =>
    /\ closed' = closed
    /\ \A f \in Fut : slot[f] # ConnectionClosed => slot'[f] # ConnectionClosed
    /\ values' = values

\* C17: a decode error does not set closed and does not hand
\* Err(ConnectionClosed) to pending requests or suspended receivers.
C17_DecodeErrorIsLocal == [][C17_Step]_vars

\* the step in which a worker whose read has failed starts close_connection
ReadFailure ==
  \E w \in Wk : workers[w].st = "failed" /\ workers'[w].st = "closing"

C14_Step ==
  /\ closed => closed'
  /\ (~closed /\ closed') => ReadFailure
  /\ is_closed = "true" => is_closed' = "true"

\* C14: closed starts false, only a read failure sets it, nothing resets it,
\* and once is_closed() has returned true it returns true ever after.
C14_ClosedIsTerminal == ~closed /\ [][C14_Step]_vars

Sends == {f \in Fut : kind[f] = "send"}
\* the futures that have written to the writer
Writers == {out[i].f : i \in DOMAIN out}

\* C11: a send created after closed became true writes nothing and resolves
\* to Err(ConnectionClosed).
C11_SendAfterCloseFails ==
  \A f \in afterClose \cap Sends :
    /\ f \notin Writers
    /\ pc[f] = "done" => result[f] = ConnectionClosed

C13_Step ==
  closed =>
    /\ \A w \in Wk : workers[w].st = "none" => workers'[w].st = "none"
    /\ \A f \in Fut : pc[f] = "sending" => pc'[f] = "sending"

\* C13: in a state where closed is true no read worker and no write worker
\* is started.
C13_NoIoAfterClose == [][C13_Step]_vars

\* C18: the fragments of one message are contiguous on the wire: between two
\* fragments of one send there is no fragment of another.
C18_WritesSerialized ==
  \A i, j, k \in DOMAIN out :
    (i < j /\ j < k /\ out[i].f = out[k].f) => out[j].f = out[i].f

\* two sends in flight together: the worker of f holds the writer and has
\* written half of its message, the worker of g is started and waits
C18_Witness ==
  \E f, g \in Fut :
    /\ f # g
    /\ writer = f /\ pc[f] = "s_half" /\ pc[g] = "s_state"
    /\ f \in Writers

\* C19: the k-th id allocated over all clones is k-1, and no two request
\* messages carry the same req_id.
C19_IdsSequential ==
  /\ \A k \in DOMAIN allocs : allocs[k] = k - 1
  /\ \A i, j \in DOMAIN created : i # j => created[i] # created[j]

\* two clones were inside request at the same time, each holding an id, and
\* both have created their message
C19_Witness ==
  /\ \E c, d \in Clones : c # d /\ cid[c] # NoId /\ cid[d] # NoId /\ cid[c] # cid[d]
  /\ Len(created) = 2 /\ created[1] > created[2]

\* C20: once an id has been allocated and no request call is between its
\* allocation and the creation of its message, last_req_id() is the id
\* allocated last and the req_id of the request message created last.
C20_LastReqId ==
  (allocs # <<>> /\ \A c \in Clones : cpc[c] = "idle") =>
    \A c \in Clones :
      /\ last_req_id(c) = Last(allocs)
      /\ last_req_id(c) = Last(created)

\* the workers that have passed reader.lock() and not yet dropped the guard
Reading ==
  {w \in Wk : workers[w].st \in {"reading", "decoded", "failed", "dispatch",
                                 "pushed", "closing", "release"}}

\* C27: at most one read worker is between reader.lock() and the release of
\* the reader guard: two decodes of the stream never overlap.
C27_SingleReader == Cardinality(Reading) <= 1

\* two workers exist, one decoding, the other waiting for the reader mutex
C27_Witness ==
  \E w, x \in Wk :
    workers[w].st = "reading" /\ workers[x].st = "spawned" /\ reader = w

\* request f is issued and still unanswered: its send is under way or done
\* Ok, no response has been put in its slot and it has not completed
Outstanding(f) ==
  /\ kind[f] = "req"
  /\ InSend(f) \/ pc[f] \in {"wait", "q2", "q3"}
  /\ slot[f].kind = "none"

\* C28: every key of the pending map is the req_id of a request that is
\* issued and still unanswered; no entry is left for a request that was
\* answered, whose send failed or whose future has completed.
C28_PendingOnlyOutstanding ==
  \A k \in Pending(requests) :
    Outstanding(requests[k].slot) /\ req_id[requests[k].slot] = k

\* the waker of f is stored in the pending map or held by a read worker
Registered(f) ==
  \/ \E k \in Ids : requests[k].waker = f
  \/ \E w \in Wk : workers[w].st # "none" /\ workers[w].waker = f
\* both fragments of the message of f are on the wire
FullyWritten(f) == {out[i].part : i \in {j \in DOMAIN out : out[j].f = f}} = {1, 2}

\* C29: while the send of a request has not resolved, and after it has
\* resolved to an error, the response future has registered no waker and
\* launched no read; when the response future is polled the message is
\* fully written.
C29_ResponseAfterSend ==
  \A f \in Requests :
    /\ (InSend(f) \/ SendFailed(f)) => ~Registered(f)
    /\ pc[f] \in {"wait", "q1", "q2", "q3"} => FullyWritten(f)

\* a request whose send is done has registered its waker and launched a
\* read, while another request's send has failed
C29_Witness ==
  \E f, g \in Requests :
    /\ Registered(f) /\ FullyWritten(f) /\ pc[f] = "wait"
    /\ SendFailed(g) /\ pc[g] = "done"

Dropped == {f \in Fut : pc[f] = "dropped"}

\* requests with pairwise distinct ids whose sends are done, one of them
\* dropped while suspended; the peer has answered each of them once (the
\* dropped one too) and sent nothing else; no failure
C30_Scenario ==
  /\ Receivers = {} /\ Dropped # {}
  /\ ~broken /\ poisoned = {}
  /\ \A f \in Requests : req_id[f] # NoId /\ ~InSend(f) /\ ~SendFailed(f)
  /\ \A f, g \in Requests : f # g => req_id[f] # req_id[g]
  /\ Len(sent) = Cardinality(Requests)
  /\ \A f \in Requests : \E i \in DOMAIN sent : sent[i] = req_id[f]

\* C30: after a suspended request has been dropped and the response for its
\* id has arrived, the connection does not come to rest before every other
\* request has resolved to its own response.
C30_DropIsSafe ==
  (C30_Scenario /\ Quiescent) =>
    \A f \in Requests \ Dropped : result[f].kind = "ok" /\ result[f].to = req_id[f]

\* C21: the façade's recv returns the request when the connection returned
\* a request, Err(UnexpectedResponse) when it returned a response, and the
\* connection's error otherwise; it never returns a response.
C21_RecvOnlyRequests ==
  /\ \A r \in RecvResults :
       /\ (r.kind = "ok" /\ r.to = NoId) => facade_recv(r) = r
       /\ (r.kind = "ok" /\ r.to # NoId) => facade_recv(r) = UnexpectedResponse
       /\ r.kind # "ok" => facade_recv(r) = r
  /\ \A f \in Receivers :
       pc[f] = "done" =>
         /\ ~(facade_recv(result[f]).kind = "ok" /\ facade_recv(result[f]).to # NoId)
         /\ result[f].kind # "ok" => facade_recv(result[f]) = result[f]

\* one recv of the façade has returned a request and another the
\* connection's error
C21_Witness ==
  \E f, g \in Receivers :
    /\ pc[f] = "done" /\ result[f].kind = "ok" /\ facade_recv(result[f]) = result[f]
    /\ pc[g] = "done" /\ facade_recv(result[g]) = ConnectionClosed

\* C22: connect returns Ok only after the handshake request with req_id 0
\* was written first and the response with to = 0 was received, and it never
\* fails abruptly: a parse or transport failure is returned as an Err.
C22_ConnectHandshakes ==
  /\ connect = "Ok" =>
       /\ written # <<>> /\ written[1] = 0
       /\ result[Handshake].kind = "ok" /\ result[Handshake].to = 0
  /\ connect # "panic"

\* the variants pack is implemented for, and the packed length of each
Packable == {"IPV4", "IPV6", "OnionV2", "OnionV3", "I2PB32"}
PackedLen(variant) ==
  CASE variant = "IPV4" -> 6
    [] variant = "IPV6" -> 18
    [] variant = "OnionV2" -> 12
    [] variant = "OnionV3" -> 37
    [] variant = "I2PB32" -> 34
\* parse accepted the input and returned a variant that can be packed
ParsedPackable ==
  input.kind = "str" /\ parsed.kind = "ok" /\ parsed.v.variant \in Packable

\* C23: for every address a that parse accepts and whose variant can be
\* packed, pack(a) returns bytes and unpack of them returns Ok(a): the same
\* variant, host or label, and port.
C23_PackRoundTrip ==
  ParsedPackable =>
    /\ packed # None => packed.kind = "bytes"
    /\ unpacked # None => unpacked = Ok(parsed.v)

\* C24 as stated: for every address value of every variant, constructed
\* values included, parse(to_string(a)) returns Ok(a).
C24_EveryValue ==
  (value.kind = "ok" /\ reparsed # None) => reparsed = value

\* C24, amended: for every address value returned by parse or by unpack,
\* parse(to_string(a)) returns Ok(a).
C24_ReturnedValues ==
  (input.kind \in {"str", "bytes"} /\ value.kind = "ok" /\ reparsed # None) =>
    reparsed = value

\* an IPv6 address that parse accepted was written in another form than the
\* one handed in, and parsed back to the same value
C24_Witness ==
  /\ input.kind = "str" /\ parsed.kind = "ok" /\ parsed.v.variant = "IPV6"
  /\ shown.kind = "str" /\ shown.s # input.s
  /\ reparsed = parsed

\* C25: for every address parse accepts, the bytes pack returns have the
\* length listed for the variant and unpack of them returns that variant;
\* unpack of bytes of any other length returns InvalidBytearray(len).
C25_LengthDeterminesVariant ==
  /\ (ParsedPackable /\ packed.kind = "bytes") =>
       Len(packed.b) = PackedLen(parsed.v.variant)
  /\ (ParsedPackable /\ packed.kind = "bytes" /\ unpacked # None) =>
       unpacked.kind = "ok" /\ unpacked.v.variant = parsed.v.variant
  /\ (input.kind = "bytes" /\ unpacked # None
        /\ Len(packed.b) \notin {6, 18, 12, 37, 34}) =>
       unpacked = InvalidBytearray(Len(packed.b))

\* the input has no port part: no ':' at all, or it is an IPv6 address,
\* bare or in brackets, and nothing more
NoPortPart(s) ==
  \/ find(s, 58) = 0
  \/ parse_ipv6(s).kind = "ok"
  \/ /\ Len(s) >= 2 /\ s[1] = 91 /\ s[Len(s)] = 93
     /\ parse_ipv6(SubSeq(s, 2, Len(s) - 1)).kind = "ok"
\* the input is a host without ':' followed by ':' and a decimal port
HostAndPort(s) == Len(split(s, 58)) = 2 /\ parse_port(split(s, 58)[2]) # -1
HostOf(s) == split(s, 58)[1]
PortOf(s) == parse_port(split(s, 58)[2])
\* the label of a host ending in ".onion"
OnionLabel(s) == strip_suffix(HostOf(s), ONION)
\* the host is an IPv4 address or ends in a suffix parse knows
Recognized(s) ==
  \/ parse_ipv4(HostOf(s)).kind = "ok"
  \/ \E suffix \in {ONION, B32_I2P, LOKI} : strip_suffix(HostOf(s), suffix).kind = "some"

\* C26: parse gives MissingPort for an input without a port part; for a
\* host with a port it gives OnionV2 for a 16-character .onion label,
\* OnionV3 for a 56-character one, WrongLength for any other .onion label,
\* and UnrecognizedAddressFormat for a host of no known suffix or shape.
C26_ParseClassifies ==
  (input.kind = "str" /\ parsed # None) =>
    /\ NoPortPart(input.s) => parsed = Err("MissingPort")
    /\ (HostAndPort(input.s) /\ OnionLabel(input.s).kind = "some") =>
         IF Len(OnionLabel(input.s).s) = 16
         THEN parsed = Ok(PeerAddr("OnionV2", OnionLabel(input.s).s, PortOf(input.s)))
         ELSE IF Len(OnionLabel(input.s).s) = 56
         THEN parsed = Ok(PeerAddr("OnionV3", OnionLabel(input.s).s, PortOf(input.s)))
         ELSE parsed = WrongLength(Len(OnionLabel(input.s).s))
    /\ (HostAndPort(input.s) /\ ~Recognized(input.s)) =>
         parsed = Err("UnrecognizedAddressFormat")

\* the read workers that exist: spawned by recv() and not yet finished
ReadWorkers == {w \in Wk : workers[w].st # "none"}

\* C39: at most one read worker exists at any time: two polls never both
\* pass the reader-idle check of recv() and both spawn a worker.
C39_SingleWorker == Cardinality(ReadWorkers) <= 1

\* the ids req_id() has handed out so far
Allocated == {allocs[i] : i \in DOMAIN allocs}

\* C40: last_req_id() never returns an id that has not been allocated; on a
\* façade on which no request has been made the subtraction next_req_id - 1
\* does not underflow.
C40_LastReqIdAllocated ==
  \A c \in Clones :
    /\ last_req_id(c) # Underflow
    /\ last_req_id(c) \in Ids \cup 0..MaxAlloc => last_req_id(c) \in Allocated

\* C38: a request call that failed with MissingReqId has written no bytes of
\* its message to the writer and has no entry in the pending map.
C38_MissingReqIdNoEffect ==
  \A f \in Requests :
    result[f] = MissingReqId =>
      /\ f \notin Writers
      /\ \A k \in Ids : requests[k].slot # f

\* no step of the library is possible, spare write workers included
PollQuiescent == ~ENABLED PollStep

\* C37: a response delivered to a slot registered without a waker (the send
\* of its request still in progress) is not lost: once the send has
\* completed the request resolves to that response, and the connection does
\* not come to rest, nor the request's task fail, before it has.
C37_EarlyResponseResolves ==
  \A f \in early :
    IF pc[f] = "done"
    THEN SendFailed(f) \/ (result[f].kind = "ok" /\ result[f].to = req_id[f])
    ELSE pc[f] # "panicked" /\ ~PollQuiescent

\* how often fragment p of the message of f is on the wire
Copies(f, p) == Cardinality({i \in DOMAIN out : out[i].f = f /\ out[i].part = p})
\* the send future of f has returned Ready
SendResolved(f) ==
  kind[f] \in {"send", "req"} /\ ~InSend(f) /\ pc[f] \notin {"unused", "panicked"}

\* C36: the message of a send is written at most once however often its
\* future is polled and however many write workers are spawned, and the send
\* future resolves only after the one write attempt is over, with that
\* attempt's result: Ok with the whole message written, an error without.
C36_WrittenOnce ==
  \A f \in Fut :
    /\ Copies(f, 1) <= 1 /\ Copies(f, 2) <= 1
    /\ SendResolved(f) =>
         /\ writer # f
         /\ IF SendFailed(f) THEN ~FullyWritten(f) ELSE FullyWritten(f)
         /\ result[f] = EncodeError => f \notin Writers

\* a send polled twice before a worker ran: two workers were spawned, one has
\* written the message, the future has resolved Ok and the other worker is
\* still to run
C36_Witness ==
  \E f \in Sends :
    pc[f] = "done" /\ result[f] = OkUnit /\ spare[f] > 0 /\ FullyWritten(f)

\* receivers only, one of them dropped while suspended; afterwards the peer
\* has written one unsolicited message; no failure
C31_Scenario ==
  /\ Requests = {} /\ Receivers \cap Dropped # {}
  /\ ~broken /\ poisoned = {}
  /\ Len(sent) = 1 /\ Unsolicited = DOMAIN sent

\* C31: after a suspended receiver has been dropped, the next unsolicited
\* message is returned to the other suspended receiver: the connection does
\* not come to rest with the message read and that receiver still suspended.
C31_DropRecvIsSafe ==
  (C31_Scenario /\ Quiescent /\ nread = 1) =>
    \A f \in Receivers \ Dropped : result[f].kind = "ok"

\* receive future f is suspended and its waker is stored in `wakers`
Parked(f) ==
  /\ kind[f] = "recv" /\ pc[f] = "wait" /\ ~notified[f]
  /\ \E i \in DOMAIN wakers : wakers[i] = f

\* C34: no wake-up is lost for the inbox: with no failure, the connection
\* does not come to rest (waiting for more bytes from the peer) while the
\* inbox holds a message and a receive future is suspended with its waker
\* registered.
C34_NoLostWakeup ==
  (Quiescent /\ poisoned = {} /\ ~broken /\ ~closed /\ values # <<>>) =>
    \A f \in Receivers : ~Parked(f)

\* future f is suspended and its waker is registered: in `wakers` for a
\* receive future, in the pending map for a request
Waits(f) ==
  /\ pc[f] = "wait" /\ ~notified[f]
  /\ \/ \E i \in DOMAIN wakers : wakers[i] = f
     \/ \E k \in Ids : requests[k].waker = f
\* a future that is being polled or will be: it has been woken, or it is
\* inside a poll that ends in recv(), or its send is still to resolve
WillPoll(f) ==
  Live(f) /\ (notified[f] \/ InSend(f) \/ pc[f] \in {"r1", "r2", "r3", "q1", "q2", "q3"})

\* C35: while the connection is not closed (and nothing has failed) and a
\* request or receive future is suspended with a registered waker, a read
\* worker is in flight or a future has been woken and will launch one.
C35_ReaderRearmed ==
  ( /\ ~closed /\ poisoned = {} /\ ~broken
    /\ \A f \in Fut : ~SendFailed(f)
    /\ \E f \in Fut : Waits(f) ) =>
    (ReadWorkers # {} \/ \E g \in Fut : WillPoll(g))

\* read worker w holds the state mutex and waits for the inbox mutex:
\* values.lock() of the None arm or of close_connection
WantsInbox(w) ==
  /\ locks.state = WorkerId(w)
  /\ \/ workers[w].st = "closing" /\ workers[w].todo = {}
     \/ workers[w].st = "dispatch" /\ Msg(nread).to = NoId
\* read worker w holds the state mutex and waits for the mutex of slot f:
\* value.lock() of the Some(to) arm or of close_connection
WantsSlot(w, f) ==
  /\ locks.state = WorkerId(w)
  /\ \/ workers[w].st = "closing" /\ \E k \in workers[w].todo : requests[k].slot = f
     \/ /\ workers[w].st = "dispatch" /\ Msg(nread).to # NoId
        /\ workers[w].entry.slot = f
\* the poll of f holds the inbox mutex (the mutex of its slot) and waits for
\* the state mutex
HoldsInbox(f) == pc[f] = "r1" /\ locks.values = f
HoldsSlot(f) == pc[f] = "q1" /\ locks.slot[f] = f

\* C33: the locks never deadlock: no poll holds the inbox mutex or a slot
\* mutex and waits for the state mutex while a read worker (dispatching or in
\* close_connection) holds the state mutex and waits for that same mutex.
C33_NoDeadlock ==
  \A f \in Fut, w \in Wk :
    /\ ~(HoldsInbox(f) /\ WantsInbox(w))
    /\ ~(HoldsSlot(f) /\ WantsSlot(w, f))

\* the send worker of f is between writer.lock() and the end of its write
Writing(f) == pc[f] \in {"s_locked", "s_half"}

\* C32: no blocking read or write is performed with the state mutex held: a
\* read worker holds it only after its decode has returned (while it
\* dispatches or runs close_connection), never while it waits for the reader
\* or reads, and a send worker does not hold it while it writes.
C32_NoIoUnderMonitor ==
  /\ \A w \in Wk :
       /\ workers[w].st \in {"spawned", "reading"} => locks.state # WorkerId(w)
       /\ locks.state = WorkerId(w) =>
            workers[w].st \in {"dispatch", "pushed", "closing"}
  /\ \A f \in Fut : (pc[f] \in {"s_spawned", "s_state"} \/ Writing(f)) => locks.state # f

\* a read worker holds the state mutex, its decode done, while a send worker
\* is in the middle of its write
C32_Witness ==
  \E w \in Wk, f \in Fut :
    /\ workers[w].st = "dispatch" /\ locks.state = WorkerId(w)
    /\ pc[f] = "s_half" /\ writer = f

====
